---- MODULE Spec2Model ----
(***************************************************************************)
(* Rules engine of the essence crafting calculator: the requirement        *)
(* resolver, the feasibility counter, the effective difficulty and the     *)
(* attempt runner of src/src/lib/rules/runner.ts, with pickAdvantage of    *)
(* src/src/lib/rules/probability.ts.                                       *)
(*                                                                         *)
(* A ResourceMap of the configuration (inputs, outputs, salvage returns)   *)
(* is a sequence of <<key, amount>> pairs: the keys of the object literal  *)
(* in declaration order.  A ResourceMap the engine computes (requirement,  *)
(* inventoryDelta) is a function over all resources in which 0 stands for  *)
(* an absent key.                                                          *)
(***************************************************************************)
EXTENDS Integers, Sequences, FiniteSets, TLC

\* ------------------------------------------------------------------ bounds
MaxInv == 3
MaxAttempts == 2
MaxExtra == 2
MaxBump == 2
MaxProbe == 5
MaxPenalty == 2
MaxBonus == 10

\* ------------------------------------------------------- types.ts, runner.ts
RESOURCE_ORDER ==
  << "raw", "fine", "fused", "superior", "supreme", "rawAE", "rawElemental",
     "fineElemental", "fusedElemental", "superiorElemental",
     "supremeElemental", "fineArcane" >>

Resource == { RESOURCE_ORDER[k] : k \in 1..Len(RESOURCE_ORDER) }

AdvMode == { "normal", "adv", "dis" }

Min(a, b) == IF a <= b THEN a ELSE b

Max(a, b) == IF a >= b THEN a ELSE b

\* `source[key] ?? 0` on an object that may lack the key
Get(source, key) == IF key \in DOMAIN source THEN source[key] ELSE 0

\* `map[key] ?? 0` on a configured ResourceMap (pairs in declaration order)
RECURSIVE Amount(_, _)
Amount(map, key) ==
  IF map = << >> THEN 0
  ELSE IF Head(map)[1] = key THEN Head(map)[2]
  ELSE Amount(Tail(map), key)

\* Object.keys(map)
Keys(map) == [k \in 1..Len(map) |-> map[k][1]]

EmptyMap == [key \in Resource |-> 0]

cloneInventory(source) == [key \in Resource |-> Get(source, key)]

\* ------------------------------------------------ resolveAttemptRequirement
\* mutant: the availability test of a fixed input is the wrong way round
RECURSIVE ReserveInputsFlipped(_, _, _)
ReserveInputsFlipped(st, inputs, keys) ==
  IF keys = << >> THEN st
  ELSE LET key == Head(keys)
           need == Amount(inputs, key)
       IN IF need <= 0 THEN ReserveInputsFlipped(st, inputs, Tail(keys))
          ELSE IF st.available[key] > need THEN [st EXCEPT !.ok = FALSE]
          ELSE ReserveInputsFlipped(
                 [st EXCEPT !.available[key] = @ - need,
                            !.requirement[key] = @ + need],
                 inputs, Tail(keys))

\* the loop over the fixed inputs; st = [ok, available, requirement]
RECURSIVE ReserveInputs(_, _, _)
ReserveInputs(st, inputs, keys) ==
  IF keys = << >> THEN st
  ELSE LET key == Head(keys)
           need == Amount(inputs, key)
       IN IF need <= 0 THEN ReserveInputs(st, inputs, Tail(keys))
          ELSE IF st.available[key] < need THEN [st EXCEPT !.ok = FALSE]
          ELSE ReserveInputs(
                 [st EXCEPT !.available[key] = @ - need,
                            !.requirement[key] = @ + need],
                 inputs, Tail(keys))

\* mutant: the optional cost is reserved without the availability test
ReserveOptionalUnchecked(st, extraCost, optional) ==
  IF ~st.ok THEN st
  ELSE IF optional.present /\ extraCost > 0
  THEN [st EXCEPT !.available[optional.resource] = @ - extraCost,
                  !.requirement[optional.resource] = @ + extraCost]
  ELSE st

\* mutant: the optional cost is tested against the stock before the fixed
\* inputs were reserved
ReserveOptionalIndependent(st, extraCost, optional) ==
  IF ~st.ok THEN st
  ELSE IF optional.present /\ extraCost > 0
  THEN LET resource == optional.resource
       IN IF st.available[resource] + st.requirement[resource] < extraCost
          THEN [st EXCEPT !.ok = FALSE]
          ELSE [st EXCEPT !.available[resource] = @ - extraCost,
                          !.requirement[resource] = @ + extraCost]
  ELSE st

\* mutant: the availability test is on extraCost, but one unit is reserved
ReserveOptionalOneUnit(st, extraCost, optional) ==
  IF ~st.ok THEN st
  ELSE IF optional.present /\ extraCost > 0
  THEN LET resource == optional.resource
       IN IF st.available[resource] < extraCost THEN [st EXCEPT !.ok = FALSE]
          ELSE [st EXCEPT !.available[resource] = @ - 1,
                          !.requirement[resource] = @ + 1]
  ELSE st

\* the optional-cost block
ReserveOptional(st, extraCost, optional) ==
  IF ~st.ok THEN st
  ELSE IF optional.present /\ extraCost > 0
  THEN LET resource == optional.resource
       IN IF st.available[resource] < extraCost THEN [st EXCEPT !.ok = FALSE]
          ELSE [st EXCEPT !.available[resource] = @ - extraCost,
                          !.requirement[resource] = @ + extraCost]
  ELSE st

\* mutant: the options are tried from the last one to the first
RECURSIVE TakeOptionsReversed(_, _)
TakeOptionsReversed(fs, options) ==
  IF options = << >> THEN fs
  ELSE LET rest == TakeOptionsReversed(fs, Tail(options))
           option == Head(options)
           usable == Min(rest.remaining, rest.st.available[option])
       IN IF rest.remaining <= 0 \/ usable <= 0 THEN rest
          ELSE [st |-> [rest.st EXCEPT !.available[option] = @ - usable,
                                       !.requirement[option] = @ + usable],
                remaining |-> rest.remaining - usable]

\* the inner loop over one flex input's options; fs = [st, remaining]
RECURSIVE TakeOptions(_, _)
TakeOptions(fs, options) ==
  IF options = << >> THEN fs
  ELSE LET option == Head(options)
           usable == Min(fs.remaining, fs.st.available[option])
           taken == IF usable > 0
                    THEN [st |-> [fs.st EXCEPT !.available[option] = @ - usable,
                                               !.requirement[option] = @ + usable],
                          remaining |-> fs.remaining - usable]
                    ELSE fs
       IN IF taken.remaining <= 0 THEN taken
          ELSE TakeOptions(taken, Tail(options))

\* the outer loop over the flex inputs
RECURSIVE ReserveFlex(_, _)
ReserveFlex(st, flexInputs) ==
  IF ~st.ok \/ flexInputs = << >> THEN st
  ELSE LET flex == Head(flexInputs)
           fs == TakeOptions([st |-> st, remaining |-> flex.amount], flex.options)
       IN IF fs.remaining > 0 THEN [fs.st EXCEPT !.ok = FALSE]
          ELSE ReserveFlex(fs.st, Tail(flexInputs))

\* ok = FALSE is the null result; requirement is meaningful only when ok
resolveAttemptRequirement(inventory, risk, extraCost, optional) ==
  LET start == [ok |-> TRUE, available |-> cloneInventory(inventory),
                requirement |-> EmptyMap]
      fixed == ReserveInputs(start, risk.inputs, Keys(risk.inputs))
      paid == ReserveOptional(fixed, extraCost, optional)
  IN ReserveFlex(paid, risk.flexInputs)

applyRequirement(target, requirement) ==
  [key \in Resource |-> target[key] - requirement[key]]

resolveSalvageStages(config) ==
  IF ~config.present THEN << >>
  ELSE IF config.staged THEN config.stages
  ELSE << [dc |-> config.dc, returns |-> config.returns] >>

\* mutant: the reduction is not held at the floor
computeEffectiveDcNoFloor(risk, extraCost, optional) ==
  IF ~optional.present \/ extraCost <= 0 THEN risk.baseDc
  ELSE risk.baseDc - extraCost * optional.perUnitDcReduction

computeEffectiveDc(risk, extraCost, optional) ==
  IF ~optional.present \/ extraCost <= 0 THEN risk.baseDc
  ELSE LET reduction == extraCost * optional.perUnitDcReduction
       IN Max(optional.minDc, risk.baseDc - reduction)

\* mutant: a feasible attempt is counted but not committed
RECURSIVE FeasibleLoopNoCommit(_, _, _, _, _, _, _)
FeasibleLoopNoCommit(working, feasible, i, risk, attempts, extraCost, optional) ==
  IF ~(i < attempts) THEN feasible
  ELSE LET res == resolveAttemptRequirement(working, risk, extraCost, optional)
       IN IF ~res.ok THEN feasible
          ELSE FeasibleLoopNoCommit(working, feasible + 1, i + 1, risk, attempts,
                                    extraCost, optional)

\* the loop of maxFeasibleAttempts from iteration i on
RECURSIVE FeasibleLoop(_, _, _, _, _, _, _)
FeasibleLoop(working, feasible, i, risk, attempts, extraCost, optional) ==
  IF ~(i < attempts) THEN feasible
  ELSE LET res == resolveAttemptRequirement(working, risk, extraCost, optional)
       IN IF ~res.ok THEN feasible
          ELSE FeasibleLoop(applyRequirement(working, res.requirement),
                            feasible + 1, i + 1, risk, attempts, extraCost, optional)

maxFeasibleAttempts(inventory, risk, attempts, extraCost, optional) ==
  FeasibleLoop(cloneInventory(inventory), 0, 0, risk, attempts, extraCost, optional)

\* ------------------------------------------------------------ probability.ts
\* mutant: the first value of the pair whatever the mode
pickAdvantageFirst(roll, other, mode) == roll

pickAdvantage(roll, other, mode) ==
  IF mode = "adv" THEN Max(roll, other)
  ELSE IF mode = "dis" THEN Min(roll, other)
  ELSE roll

\* a number of the probability code is an exact fraction << n, d >> in lowest
\* terms with d > 0
RECURSIVE Gcd(_, _)
Gcd(a, b) == IF b = 0 THEN a ELSE Gcd(b, a % b)

Abs(x) == IF x < 0 THEN 0 - x ELSE x

Norm(q) ==
  LET g == Gcd(Abs(q[1]), q[2])
  IN << q[1] \div g, q[2] \div g >>

Q(n) == << n, 1 >>

Lcm(a, b) == (a \div Gcd(a, b)) * b

QAdd(a, b) ==
  LET d == Lcm(a[2], b[2])
  IN Norm(<< a[1] * (d \div a[2]) + b[1] * (d \div b[2]), d >>)

QSub(a, b) == QAdd(a, << 0 - b[1], b[2] >>)

QMul(a, b) == Norm(<< a[1] * b[1], a[2] * b[2] >>)

QLe(a, b) ==
  LET d == Lcm(a[2], b[2])
  IN a[1] * (d \div a[2]) <= b[1] * (d \div b[2])

QMin(a, b) == IF QLe(a, b) THEN a ELSE b

QMax(a, b) == IF QLe(a, b) THEN b ELSE a

\* Math.ceil
Ceil(q) == 0 - ((0 - q[1]) \div q[2])

\* faces of the die
Faces == 20

\* mutant: the face that just meets the DC is not counted
chanceNormalOffByOne(dc, modifier) ==
  LET required == Q(dc - modifier)
      minRoll == Max(1, Ceil(required))
      successFaces == Faces - minRoll
      probability == Norm(<< successFaces, Faces >>)
  IN IF QLe(required, Q(1)) THEN Q(1)
     ELSE IF ~QLe(required, Q(Faces)) THEN Q(0)
     ELSE QMin(Q(1), QMax(Q(0), probability))

chanceNormal(dc, modifier) ==
  LET required == Q(dc - modifier)
      minRoll == Max(1, Ceil(required))
      successFaces == Faces + 1 - minRoll
      probability == Norm(<< successFaces, Faces >>)
  IN IF QLe(required, Q(1)) THEN Q(1)
     ELSE IF ~QLe(required, Q(Faces)) THEN Q(0)
     ELSE QMin(Q(1), QMax(Q(0), probability))

\* mutant: the two roll modes are exchanged
chanceWithAdvSwapped(dc, modifier, mode) ==
  LET base == chanceNormal(dc, modifier)
  IN IF mode = "dis"
     THEN QSub(Q(1), QMul(QSub(Q(1), base), QSub(Q(1), base)))
     ELSE IF mode = "adv" THEN QMul(base, base)
     ELSE base

chanceWithAdv(dc, modifier, mode) ==
  LET base == chanceNormal(dc, modifier)
  IN IF mode = "adv"
     THEN QSub(Q(1), QMul(QSub(Q(1), base), QSub(Q(1), base)))
     ELSE IF mode = "dis" THEN QMul(base, base)
     ELSE base

\* ------------------------------------------------- runner.ts: the previews
\* `failProduct *= 1 - chance` over the stage chances
RECURSIVE FailProduct(_, _)
FailProduct(failProduct, stageChances) ==
  IF stageChances = << >> THEN failProduct
  ELSE FailProduct(QMul(failProduct, QSub(Q(1), Head(stageChances))),
                   Tail(stageChances))

\* mutant: the chance of a salvage stage follows the roll mode of the check
computeOddsSalvageWithMode(risk, modifier, mode, extraCost, optional) ==
  LET dc == computeEffectiveDc(risk, extraCost, optional)
      successChance == chanceWithAdv(dc, modifier, mode)
      stages == resolveSalvageStages(risk.salvage)
      stageChances == [n \in 1..Len(stages) |->
                         chanceWithAdv(stages[n].dc, modifier, mode)]
      failProduct == FailProduct(Q(1), stageChances)
  IN [success |-> successChance,
      hasSalvage |-> risk.salvage.present,
      salvage |-> IF risk.salvage.present
                  THEN QMul(QSub(Q(1), successChance), QSub(Q(1), failProduct))
                  ELSE Q(0),
      salvageStages |-> IF risk.salvage.present THEN stageChances ELSE << >>,
      effectiveDc |-> dc]

\* mutant: the salvage value does not weigh in the failure of the check
computeOddsAnySalvage(risk, modifier, mode, extraCost, optional) ==
  LET dc == computeEffectiveDc(risk, extraCost, optional)
      successChance == chanceWithAdv(dc, modifier, mode)
      stages == resolveSalvageStages(risk.salvage)
      stageChances == [n \in 1..Len(stages) |-> chanceNormal(stages[n].dc, modifier)]
      failProduct == FailProduct(Q(1), stageChances)
  IN [success |-> successChance,
      hasSalvage |-> risk.salvage.present,
      salvage |-> IF risk.salvage.present
                  THEN QSub(Q(1), failProduct)
                  ELSE Q(0),
      salvageStages |-> IF risk.salvage.present THEN stageChances ELSE << >>,
      effectiveDc |-> dc]

\* salvage and salvageStages are undefined without a salvage config:
\* hasSalvage is FALSE then, and the two fields hold 0 and the empty list
computeOdds(risk, modifier, mode, extraCost, optional) ==
  LET dc == computeEffectiveDc(risk, extraCost, optional)
      successChance == chanceWithAdv(dc, modifier, mode)
      stages == resolveSalvageStages(risk.salvage)
      stageChances == [n \in 1..Len(stages) |-> chanceNormal(stages[n].dc, modifier)]
      failProduct == FailProduct(Q(1), stageChances)
  IN [success |-> successChance,
      hasSalvage |-> risk.salvage.present,
      salvage |-> IF risk.salvage.present
                  THEN QMul(QSub(Q(1), successChance), QSub(Q(1), failProduct))
                  ELSE Q(0),
      salvageStages |-> IF risk.salvage.present THEN stageChances ELSE << >>,
      effectiveDc |-> dc]

\* an expectation is a map over every resource, an absent key holding 0
NoExpectation == [key \in Resource |-> Q(0)]

\* `expectation[key] -= spent` for every fixed input
RECURSIVE SpendInputs(_, _)
SpendInputs(expectation, inputs) ==
  IF inputs = << >> THEN expectation
  ELSE LET key == Head(inputs)[1]
           spent == Head(inputs)[2]
       IN SpendInputs(IF spent # 0
                      THEN [expectation EXCEPT ![key] = QSub(@, Q(spent))]
                      ELSE expectation,
                      Tail(inputs))

\* `expectation[key] += gain * chance` for every key of a configured map
RECURSIVE AddExpected(_, _, _)
AddExpected(expectation, map, chance) ==
  IF map = << >> THEN expectation
  ELSE LET key == Head(map)[1]
           gain == Head(map)[2]
       IN AddExpected(IF gain # 0
                      THEN [expectation EXCEPT ![key] = QAdd(@, QMul(Q(gain), chance))]
                      ELSE expectation,
                      Tail(map), chance)

\* mutant: every stage is weighed as if it were the first
RECURSIVE StageExpectationNoCascade(_, _, _, _, _)
StageExpectationNoCascade(expectation, stages, chances, index, remainingFailure) ==
  IF ~(index < Len(stages)) THEN expectation
  ELSE LET stage == stages[index + 1]
           stageChance == IF index < Len(chances) THEN chances[index + 1] ELSE Q(0)
       IN IF QLe(stageChance, Q(0))
          THEN StageExpectationNoCascade(expectation, stages, chances, index + 1,
                                         remainingFailure)
          ELSE LET actualChance == QMul(remainingFailure, stageChance)
               IN StageExpectationNoCascade(
                    AddExpected(expectation, stage.returns, actualChance),
                    stages, chances, index + 1, remainingFailure)

\* stages.forEach of computeExpectedValue from stage `index` on
RECURSIVE StageExpectation(_, _, _, _, _)
StageExpectation(expectation, stages, chances, index, remainingFailure) ==
  IF ~(index < Len(stages)) THEN expectation
  ELSE LET stage == stages[index + 1]
           stageChance == IF index < Len(chances) THEN chances[index + 1] ELSE Q(0)
       IN IF QLe(stageChance, Q(0))
          THEN StageExpectation(expectation, stages, chances, index + 1,
                                remainingFailure)
          ELSE LET actualChance == QMul(remainingFailure, stageChance)
               IN StageExpectation(
                    AddExpected(expectation, stage.returns, actualChance),
                    stages, chances, index + 1,
                    QMul(remainingFailure, QSub(Q(1), stageChance)))

computeExpectedValue(risk, odds, optional, extraCost) ==
  LET success == odds.success
      spent == SpendInputs(NoExpectation, risk.inputs)
      paid == IF optional.present /\ extraCost > 0
              THEN [spent EXCEPT ![optional.resource] = QSub(@, Q(extraCost))]
              ELSE spent
      gained == AddExpected(paid, risk.outputs, success)
  IN IF risk.salvage.present /\ Len(odds.salvageStages) > 0
     THEN StageExpectation(gained, resolveSalvageStages(risk.salvage),
                           odds.salvageStages, 0, QSub(Q(1), success))
     ELSE gained

\* ------------------------------------------------------------ configurations
NoOptional ==
  [present |-> FALSE, resource |-> "raw", perUnitDcReduction |-> 0, minDc |-> 0]

NoSalvage ==
  [present |-> FALSE, staged |-> FALSE, dc |-> 0, returns |-> << >>, stages |-> << >>]

SingleStage(dc, returns) ==
  [present |-> TRUE, staged |-> FALSE, dc |-> dc, returns |-> returns, stages |-> << >>]

Staged(stages) ==
  [present |-> TRUE, staged |-> TRUE, dc |-> 0, returns |-> << >>, stages |-> stages]

\* elementalRules: t1 / steady (no inputs)
ElementalT1 ==
  [action |-> [id |-> "t1", tier |-> "T1", optionalCost |-> NoOptional],
   risk |-> [id |-> "steady", baseDc |-> 10, inputs |-> << >>,
             flexInputs |-> << >>,
             outputs |-> << <<"rawElemental", 1>>, <<"rawAE", 1>> >>,
             salvage |-> SingleStage(12, << <<"rawElemental", 1>> >>),
             toolRequirement |-> "", timeMinutes |-> 45],
   pool |-> {"rawElemental"}, spare |-> {}]

\* elementalRules: t2 / standard (fixed input and flex input share rawElemental,
\* salvage returns a consumed resource)
ElementalT2 ==
  [action |-> [id |-> "t2", tier |-> "T2", optionalCost |-> NoOptional],
   risk |-> [id |-> "standard", baseDc |-> 14,
             inputs |-> << <<"rawElemental", 1>> >>,
             flexInputs |-> << [id |-> "raw-any", amount |-> 1,
                                options |-> <<"raw", "rawElemental">>] >>,
             outputs |-> << <<"fineElemental", 1>> >>,
             salvage |-> SingleStage(12, << <<"rawElemental", 1>> >>),
             toolRequirement |-> "", timeMinutes |-> 90],
   pool |-> {"raw", "rawElemental"}, spare |-> {}]

\* elementalRules: t4 / steady (optional cost, flex input, tool requirement)
ElementalT4 ==
  [action |-> [id |-> "t4", tier |-> "T4",
               optionalCost |-> [present |-> TRUE, resource |-> "rawAE",
                                 perUnitDcReduction |-> 2, minDc |-> 12]],
   risk |-> [id |-> "steady", baseDc |-> 20,
             inputs |-> << <<"fusedElemental", 1>> >>,
             flexInputs |-> << [id |-> "fused-any", amount |-> 1,
                                options |-> <<"fused", "fusedElemental">>] >>,
             outputs |-> << <<"superiorElemental", 1>> >>,
             salvage |-> SingleStage(16, << <<"fineElemental", 2>> >>),
             toolRequirement |-> "greater", timeMinutes |-> 150],
   pool |-> {"fusedElemental", "rawAE"}, spare |-> {"fused"}]

\* elementalRules: t5 / ascend, also stagedAction of runner.test.ts
ElementalT5 ==
  [action |-> [id |-> "t5", tier |-> "T5", optionalCost |-> NoOptional],
   risk |-> [id |-> "ascend", baseDc |-> 24,
             inputs |-> << <<"superiorElemental", 1>>, <<"fusedElemental", 1>> >>,
             flexInputs |-> << >>,
             outputs |-> << <<"supremeElemental", 1>> >>,
             salvage |-> Staged(<< [dc |-> 22, returns |-> << <<"superiorElemental", 1>> >>],
                                   [dc |-> 18, returns |-> << <<"fusedElemental", 1>> >>] >>),
             toolRequirement |-> "", timeMinutes |-> 240],
   pool |-> {"superiorElemental", "fusedElemental"}, spare |-> {}]

\* runner.test.ts: baseRisk
baseRisk ==
  [id |-> "standard", baseDc |-> 18, inputs |-> << <<"fused", 2>> >>,
   flexInputs |-> << >>, outputs |-> << <<"superior", 1>> >>,
   salvage |-> SingleStage(14, << <<"fine", 3>> >>),
   toolRequirement |-> "", timeMinutes |-> 120]

\* runner.test.ts: optional
optional ==
  [present |-> TRUE, resource |-> "rawAE", perUnitDcReduction |-> 4, minDc |-> 5]

\* runner.test.ts: sharedOptional
sharedOptional ==
  [present |-> TRUE, resource |-> "fused", perUnitDcReduction |-> 1, minDc |-> 10]

\* runner.test.ts: freeRisk
freeRisk == [baseRisk EXCEPT !.inputs = << >>]

\* runner.test.ts: flexRisk
flexRisk ==
  [baseRisk EXCEPT !.inputs = << <<"rawElemental", 1>> >>,
                   !.outputs = << <<"fineElemental", 1>> >>,
                   !.salvage = NoSalvage,
                   !.flexInputs = << [id |-> "raw-any", amount |-> 1,
                                      options |-> <<"raw", "rawElemental">>] >>]

TestBase ==
  [action |-> [id |-> "test", tier |-> "T4", optionalCost |-> optional],
   risk |-> baseRisk, pool |-> {"fused", "rawAE"}, spare |-> {}]

TestShared ==
  [action |-> [id |-> "shared", tier |-> "T4", optionalCost |-> sharedOptional],
   risk |-> baseRisk, pool |-> {"fused"}, spare |-> {}]

\* an action whose optional-cost floor lies above the base DC of its risk
LowBase ==
  [action |-> [id |-> "low", tier |-> "T1",
               optionalCost |-> [present |-> TRUE, resource |-> "rawAE",
                                 perUnitDcReduction |-> 2, minDc |-> 12]],
   risk |-> [id |-> "low", baseDc |-> 10, inputs |-> << >>,
             flexInputs |-> << >>, outputs |-> << <<"rawElemental", 1>> >>,
             salvage |-> NoSalvage, toolRequirement |-> "", timeMinutes |-> 45],
   pool |-> {"rawAE"}, spare |-> {}]

\* two flex inputs over the same options, one of which is also the fixed input
\* and the other the optional-cost resource; the output is a consumed resource
FlexOverlap ==
  [action |-> [id |-> "flex", tier |-> "T2",
               optionalCost |-> [present |-> TRUE, resource |-> "fine",
                                 perUnitDcReduction |-> 2, minDc |-> 12]],
   risk |-> [id |-> "mix", baseDc |-> 14, inputs |-> << <<"raw", 1>> >>,
             flexInputs |-> << [id |-> "a", amount |-> 2, options |-> <<"raw", "fine">>],
                               [id |-> "b", amount |-> 1, options |-> <<"fine", "raw">>] >>,
             outputs |-> << <<"raw", 1>> >>,
             salvage |-> SingleStage(12, << <<"fine", 1>> >>),
             toolRequirement |-> "", timeMinutes |-> 90],
   pool |-> {"raw", "fine"}, spare |-> {}]

\* each configuration names the resources the caller may hold: up to MaxInv
\* units of a pool resource, at most one unit of a spare resource
Scenarios ==
  << ElementalT1, ElementalT2, ElementalT4, ElementalT5, TestBase, TestShared,
     LowBase, FlexOverlap >>

\* values the roll source hands out
RollValues == {2, 20}

\* the crafting modifier and roll mode of the caller's settings
Settings ==
  { <<0, "normal">>, <<6, "normal">>, <<0, "adv">>, <<6, "dis">> }

\* f @@ g for two inventories over disjoint resources
Merge(f, g) ==
  [key \in DOMAIN f \cup DOMAIN g |-> IF key \in DOMAIN f THEN f[key] ELSE g[key]]

Undefined == "<undefined>"

\* `!value` of a string | undefined
Falsy(value) == value = Undefined \/ value = ""

\* ------------------------------------------------------------------- state
VARIABLES
  action, risk, attempts, inventory, modifier, rollMode, extraCost,
  feasible, finalInventory, results, allRolls, completed, stoppedReason, i,
  pc, summary, requirementMet, checkDraws, salvageDraws, odds, expectation,
  state, settings, manualQueues, message

vars ==
  << action, risk, attempts, inventory, modifier, rollMode, extraCost,
     feasible, finalInventory, results, allRolls, completed, stoppedReason, i,
     pc, summary, requirementMet, checkDraws, salvageDraws, odds, expectation,
     state, settings, manualQueues, message >>

options == << action, risk, attempts, inventory, modifier, rollMode, extraCost >>

call == << options, feasible >>

preview == << odds, expectation >>

\* the page around the engine: its persisted state, its settings, the queues
\* of manual rolls and the message it shows
page == << state, settings, manualQueues, message >>

Null == "<null>"

\* undoSnapshot: null
NoSnapshot ==
  [present |-> FALSE, inventory |-> [key \in Resource |-> 0], log |-> << >>,
   rolls |-> << >>, sessionMinutes |-> 0]

DEFAULT_STATE == [log |-> << >>, rolls |-> << >>, sessionMinutes |-> 0,
                  undoSnapshot |-> NoSnapshot]

\* a manual list is the token list of its input string, each token being what
\* Number.parseInt makes of it ("NaN" for a token that is no number)
DEFAULT_SETTINGS ==
  [autoRoll |-> TRUE, manualChecks |-> << >>, manualSalvage |-> << >>,
   toolkit |-> "standard"]

NoQueues == [checks |-> << >>, salvage |-> << >>]

NoOdds ==
  [success |-> Q(0), hasSalvage |-> FALSE, salvage |-> Q(0),
   salvageStages |-> << >>, effectiveDc |-> 0]

NoSummary ==
  [attemptsRequested |-> 0, attemptsCompleted |-> 0, stoppedReason |-> Undefined,
   totalTime |-> 0]

\* the inputs of one resolution: the caller counts the feasible attempts
\* (CountFeasible) and runs the batch (runAction: Attempt, Stop, LoopEnd, Return)
Init ==
  /\ \E s \in DOMAIN Scenarios :
       /\ action = Scenarios[s].action
       /\ risk = Scenarios[s].risk
       /\ \E held \in [Scenarios[s].pool -> 0..MaxInv],
             few \in [Scenarios[s].spare -> 0..1] :
            inventory = Merge(held, few)
       /\ extraCost \in IF Scenarios[s].action.optionalCost.present
                         THEN 0..MaxExtra ELSE {0, MaxExtra}
  /\ attempts \in 1..MaxAttempts
  /\ \E setting \in Settings :
       /\ modifier = setting[1]
       /\ rollMode = setting[2]
  /\ feasible = 0
  /\ finalInventory = cloneInventory(inventory)
  /\ results = << >>
  /\ allRolls = << >>
  /\ completed = 0
  /\ stoppedReason = Undefined
  /\ i = 0
  /\ pc = "start"
  /\ summary = NoSummary
  /\ requirementMet = FALSE
  /\ checkDraws = 0
  /\ salvageDraws = 0
  /\ odds = NoOdds
  /\ expectation = NoExpectation
  /\ state = DEFAULT_STATE
  /\ settings = DEFAULT_SETTINGS
  /\ manualQueues = NoQueues
  /\ message = Null

\* the caller asks how many of the requested attempts the inventory pays for
CountFeasible ==
  /\ pc = "start"
  /\ feasible' = maxFeasibleAttempts(inventory, risk, attempts, extraCost,
                                     action.optionalCost)
  /\ pc' = "loop"
  /\ UNCHANGED << page, preview, options, finalInventory, results, allRolls, completed,
                  stoppedReason, i, summary, requirementMet, checkDraws,
                  salvageDraws >>

\* `target[key] += gain` for every key of a configured map
RECURSIVE AddGains(_, _)
AddGains(target, map) ==
  IF map = << >> THEN target
  ELSE AddGains([target EXCEPT ![Head(map)[1]] = @ + Head(map)[2]], Tail(map))

\* mutant: the cascade goes on after a stage succeeded
RECURSIVE SalvageLoopNoBreak(_, _, _, _)
SalvageLoopNoBreak(acc, stages, stageIndex, feed) ==
  IF ~(stageIndex < Len(stages)) THEN acc
  ELSE LET stage == stages[stageIndex + 1]
           salvageRoll == feed[stageIndex + 1]
           salvageTotal == salvageRoll + modifier
           salvageSuccess == salvageTotal >= stage.dc
           salvage == [type |-> "salvage", tier |-> action.tier,
                       actionId |-> action.id, riskId |-> risk.id,
                       dc |-> stage.dc, die |-> salvageRoll,
                       modifier |-> modifier, total |-> salvageTotal,
                       success |-> salvageSuccess, stage |-> stageIndex + 1]
           rolled == [acc EXCEPT !.rolls = Append(@, salvage)]
           gained == IF salvageSuccess
                     THEN [rolled EXCEPT !.inventory = AddGains(@, stage.returns),
                                         !.delta = AddGains(@, stage.returns)]
                     ELSE rolled
       IN SalvageLoopNoBreak(gained, stages, stageIndex + 1, feed)

\* mutant: the returns of a stage reach the inventory but not the delta
RECURSIVE SalvageLoopDeltaless(_, _, _, _)
SalvageLoopDeltaless(acc, stages, stageIndex, feed) ==
  IF ~(stageIndex < Len(stages)) THEN acc
  ELSE LET stage == stages[stageIndex + 1]
           salvageRoll == feed[stageIndex + 1]
           salvageTotal == salvageRoll + modifier
           salvageSuccess == salvageTotal >= stage.dc
           salvage == [type |-> "salvage", tier |-> action.tier,
                       actionId |-> action.id, riskId |-> risk.id,
                       dc |-> stage.dc, die |-> salvageRoll,
                       modifier |-> modifier, total |-> salvageTotal,
                       success |-> salvageSuccess, stage |-> stageIndex + 1]
           rolled == [acc EXCEPT !.rolls = Append(@, salvage)]
       IN IF salvageSuccess
          THEN [rolled EXCEPT !.inventory = AddGains(@, stage.returns)]
          ELSE SalvageLoopDeltaless(rolled, stages, stageIndex + 1, feed)

\* the salvage cascade of one failed attempt; feed[n] is the value the n-th
\* nextSalvage() call of the attempt returns; acc = [inventory, delta, rolls]
RECURSIVE SalvageLoop(_, _, _, _)
SalvageLoop(acc, stages, stageIndex, feed) ==
  IF ~(stageIndex < Len(stages)) THEN acc
  ELSE LET stage == stages[stageIndex + 1]
           salvageRoll == feed[stageIndex + 1]
           salvageTotal == salvageRoll + modifier
           salvageSuccess == salvageTotal >= stage.dc
           salvage == [type |-> "salvage", tier |-> action.tier,
                       actionId |-> action.id, riskId |-> risk.id,
                       dc |-> stage.dc, die |-> salvageRoll,
                       modifier |-> modifier, total |-> salvageTotal,
                       success |-> salvageSuccess, stage |-> stageIndex + 1]
           rolled == [acc EXCEPT !.rolls = Append(@, salvage)]
       IN IF salvageSuccess
          THEN [rolled EXCEPT !.inventory = AddGains(@, stage.returns),
                              !.delta = AddGains(@, stage.returns)]
          ELSE SalvageLoop(rolled, stages, stageIndex + 1, feed)

\* mutant: a total that equals the DC fails the check
rollCheckStrict(rollA, rollB) ==
  LET pick == pickAdvantage(rollA, rollB, rollMode)
      effectiveDc == computeEffectiveDc(risk, extraCost, action.optionalCost)
      total == pick + modifier
  IN [pick |-> pick, effectiveDc |-> effectiveDc, total |-> total,
      success |-> total > effectiveDc]

\* the check of one attempt on the pair nextCheckPair() returned
rollCheck(rollA, rollB) ==
  LET pick == pickAdvantage(rollA, rollB, rollMode)
      effectiveDc == computeEffectiveDc(risk, extraCost, action.optionalCost)
      total == pick + modifier
  IN [pick |-> pick, effectiveDc |-> effectiveDc, total |-> total,
      success |-> total >= effectiveDc]

\* the body of one iteration after its requirement was resolved: the working
\* inventory, the attempt record and the rolls it leaves
runAttempt(requirement, rollA, rollB, feed) ==
  LET stages == resolveSalvageStages(risk.salvage)
      paid == applyRequirement(finalInventory, requirement)
      rolled == rollCheck(rollA, rollB)
      pick == rolled.pick
      effectiveDc == rolled.effectiveDc
      total == rolled.total
      success == rolled.success
      check == [type |-> "check", tier |-> action.tier,
                actionId |-> action.id, riskId |-> risk.id,
                dc |-> effectiveDc, die |-> pick,
                modifier |-> modifier, total |-> total,
                success |-> success, stage |-> 0]
      spent == [key \in Resource |-> 0 - requirement[key]]
      gained == IF success
                THEN [inventory |-> AddGains(paid, risk.outputs),
                      delta |-> AddGains(spent, risk.outputs),
                      rolls |-> << >>]
                ELSE [inventory |-> paid, delta |-> spent, rolls |-> << >>]
      final == IF ~success /\ risk.salvage.present
               THEN SalvageLoop(gained, stages, 0, feed)
               ELSE gained
      attempt == [attempt |-> i + 1, riskId |-> risk.id,
                  dc |-> risk.baseDc, effectiveDc |-> effectiveDc,
                  success |-> success, timeMinutes |-> risk.timeMinutes,
                  check |-> check, salvage |-> final.rolls,
                  inventoryDelta |-> final.delta]
  IN [inventory |-> final.inventory, attempt |-> attempt, check |-> check,
      rolls |-> final.rolls]

\* mutant: the loop works on the caller's inventory object instead of a clone
AttemptInPlace ==
  /\ pc = "loop"
  /\ i < attempts
  /\ LET res == resolveAttemptRequirement(finalInventory, risk, extraCost,
                                          action.optionalCost)
         stages == resolveSalvageStages(risk.salvage)
     IN /\ res.ok
        /\ \E rollA \in RollValues, rollB \in RollValues :
           \E feed \in [1..Len(stages) -> RollValues] :
             LET ran == runAttempt(res.requirement, rollA, rollB, feed)
             IN /\ finalInventory' = ran.inventory
                /\ inventory' = ran.inventory
                /\ results' = Append(results, ran.attempt)
                /\ allRolls' = allRolls \o << ran.check >> \o ran.rolls
                /\ completed' = completed + 1
                /\ checkDraws' = checkDraws + 1
                /\ salvageDraws' = salvageDraws + Len(ran.rolls)
                /\ i' = i + 1
  /\ UNCHANGED << page, preview, action, risk, attempts, modifier, rollMode, extraCost,
                  feasible, stoppedReason, pc, summary, requirementMet >>

\* one iteration of the loop whose requirement can be paid
Attempt ==
  /\ pc = "loop"
  /\ i < attempts
  /\ LET res == resolveAttemptRequirement(finalInventory, risk, extraCost,
                                          action.optionalCost)
         stages == resolveSalvageStages(risk.salvage)
     IN /\ res.ok
        /\ \E rollA \in RollValues, rollB \in RollValues :
           \E feed \in [1..Len(stages) -> RollValues] :
             LET ran == runAttempt(res.requirement, rollA, rollB, feed)
             IN /\ finalInventory' = ran.inventory
                /\ results' = Append(results, ran.attempt)
                /\ allRolls' = allRolls \o << ran.check >> \o ran.rolls
                /\ completed' = completed + 1
                /\ checkDraws' = checkDraws + 1
                /\ salvageDraws' = salvageDraws + Len(ran.rolls)
                /\ i' = i + 1
  /\ UNCHANGED << page, preview, call, stoppedReason, pc, summary, requirementMet >>

\* mutant: the check pair is drawn before the requirement is resolved
StopAfterDraw ==
  /\ pc = "loop"
  /\ i < attempts
  /\ ~resolveAttemptRequirement(finalInventory, risk, extraCost,
                                action.optionalCost).ok
  /\ checkDraws' = checkDraws + 1
  /\ stoppedReason' = "Insufficient resources"
  /\ pc' = "summary"
  /\ UNCHANGED << page, preview, call, finalInventory, results, allRolls, completed, i,
                  summary, requirementMet, salvageDraws >>

\* mutant: the loop is left without a stop reason
StopSilently ==
  /\ pc = "loop"
  /\ i < attempts
  /\ ~resolveAttemptRequirement(finalInventory, risk, extraCost,
                                action.optionalCost).ok
  /\ pc' = "summary"
  /\ UNCHANGED << page, preview, call, finalInventory, results, allRolls, completed, i,
                  stoppedReason, summary, requirementMet, checkDraws,
                  salvageDraws >>

\* mutant: the resolver reserves in the working inventory itself, so the part
\* of the failed attempt that could be reserved is gone
StopPartial ==
  /\ pc = "loop"
  /\ i < attempts
  /\ LET res == resolveAttemptRequirement(finalInventory, risk, extraCost,
                                          action.optionalCost)
     IN /\ ~res.ok
        /\ finalInventory' = res.available
  /\ stoppedReason' = "Insufficient resources"
  /\ pc' = "summary"
  /\ UNCHANGED << page, preview, call, results, allRolls, completed, i,
                  summary, requirementMet, checkDraws, salvageDraws >>

\* an iteration whose requirement cannot be paid: the stop reason and break
Stop ==
  /\ pc = "loop"
  /\ i < attempts
  /\ ~resolveAttemptRequirement(finalInventory, risk, extraCost,
                                action.optionalCost).ok
  /\ stoppedReason' = "Insufficient resources"
  /\ pc' = "summary"
  /\ UNCHANGED << page, preview, call, finalInventory, results, allRolls, completed, i,
                  summary, requirementMet, checkDraws, salvageDraws >>

\* the loop condition fails after the last requested attempt
LoopEnd ==
  /\ pc = "loop"
  /\ ~(i < attempts)
  /\ pc' = "summary"
  /\ UNCHANGED << page, preview, call, finalInventory, results, allRolls, completed,
                  stoppedReason, i, summary, requirementMet, checkDraws,
                  salvageDraws >>

RECURSIVE SumTime(_)
SumTime(items) ==
  IF items = << >> THEN 0 ELSE Head(items).timeMinutes + SumTime(Tail(items))

\* the summary and the returned result
Return ==
  /\ pc = "summary"
  /\ summary' = [attemptsRequested |-> attempts, attemptsCompleted |-> completed,
                 stoppedReason |-> stoppedReason, totalTime |-> SumTime(results)]
  /\ requirementMet' = Falsy(stoppedReason)
  /\ pc' = "done"
  /\ UNCHANGED << page, preview, call, finalInventory, results, allRolls, completed,
                  stoppedReason, i, checkDraws, salvageDraws >>

Next == CountFeasible \/ Attempt \/ Stop \/ LoopEnd \/ Return

Spec == Init /\ [][Next]_vars

\* ---------------------------------------------------------- the previews
\* the modifier a caller may set: from a penalty of MaxPenalty to MaxBonus
ModifierRange == (0 - MaxPenalty)..MaxBonus

\* the inputs of one rendering of an action card: any modifier and roll mode,
\* a stock that pays one attempt
InitOdds ==
  /\ \E s \in DOMAIN Scenarios :
       /\ action = Scenarios[s].action
       /\ risk = Scenarios[s].risk
       /\ inventory = Merge([key \in Scenarios[s].pool |-> MaxInv],
                            [key \in Scenarios[s].spare |-> 1])
       /\ extraCost \in IF Scenarios[s].action.optionalCost.present
                         THEN 0..MaxExtra ELSE {0}
  /\ attempts = 1
  /\ modifier \in ModifierRange
  /\ rollMode \in AdvMode
  /\ feasible = 0
  /\ finalInventory = cloneInventory(inventory)
  /\ results = << >>
  /\ allRolls = << >>
  /\ completed = 0
  /\ stoppedReason = Undefined
  /\ i = 0
  /\ pc = "render"
  /\ summary = NoSummary
  /\ requirementMet = FALSE
  /\ checkDraws = 0
  /\ salvageDraws = 0
  /\ odds = NoOdds
  /\ expectation = NoExpectation
  /\ state = DEFAULT_STATE
  /\ settings = DEFAULT_SETTINGS
  /\ manualQueues = NoQueues
  /\ message = Null

\* the card computes the odds and the expectation it displays
Preview ==
  /\ pc = "render"
  /\ odds' = computeOdds(risk, modifier, rollMode, extraCost, action.optionalCost)
  /\ expectation' = computeExpectedValue(risk, odds', action.optionalCost, extraCost)
  /\ pc' = "previewed"
  /\ UNCHANGED << page, call, finalInventory, results, allRolls, completed,
                  stoppedReason, i, summary, requirementMet, checkDraws,
                  salvageDraws >>

NextOdds == Preview

SpecOdds == InitOdds /\ [][NextOdds]_vars

\* ------------------------------------------------------ unvalidated calls
\* a risk whose flex input names no option
EmptyFlex ==
  [action |-> [id |-> "empty", tier |-> "T2", optionalCost |-> NoOptional],
   risk |-> [id |-> "empty", baseDc |-> 14, inputs |-> << <<"fused", 1>> >>,
             flexInputs |-> << [id |-> "none", amount |-> 1, options |-> << >>] >>,
             outputs |-> << <<"superior", 1>> >>,
             salvage |-> NoSalvage, toolRequirement |-> "", timeMinutes |-> 90],
   pool |-> {"fused"}, spare |-> {}]

\* a risk whose fixed input, flex amount, output and salvage return are negative
Negative ==
  [action |-> [id |-> "negative", tier |-> "T2", optionalCost |-> NoOptional],
   risk |-> [id |-> "negative", baseDc |-> 14, inputs |-> << <<"raw", 0 - 1>> >>,
             flexInputs |-> << [id |-> "owed", amount |-> 0 - 1,
                                options |-> <<"fine">>] >>,
             outputs |-> << <<"fine", 0 - 1>> >>,
             salvage |-> SingleStage(12, << <<"raw", 0 - 2>> >>),
             toolRequirement |-> "", timeMinutes |-> 90],
   pool |-> {"raw", "fine"}, spare |-> {}]

\* the engine is called with whatever the types admit
Unvalidated == << TestBase, EmptyFlex, Negative >>

\* a call of the engine that no caller has clamped: attempts may be 0 or
\* negative and the risk may be malformed
InitUnvalidated ==
  /\ \E s \in DOMAIN Unvalidated :
       /\ action = Unvalidated[s].action
       /\ risk = Unvalidated[s].risk
       /\ \E held \in [Unvalidated[s].pool -> 0..MaxInv] : inventory = held
       /\ extraCost \in IF Unvalidated[s].action.optionalCost.present
                         THEN 0..MaxExtra ELSE {0}
  /\ attempts \in (0 - 1)..MaxAttempts
  /\ \E setting \in Settings :
       /\ modifier = setting[1]
       /\ rollMode = setting[2]
  /\ feasible = 0
  /\ finalInventory = cloneInventory(inventory)
  /\ results = << >>
  /\ allRolls = << >>
  /\ completed = 0
  /\ stoppedReason = Undefined
  /\ i = 0
  /\ pc = "start"
  /\ summary = NoSummary
  /\ requirementMet = FALSE
  /\ checkDraws = 0
  /\ salvageDraws = 0
  /\ odds = NoOdds
  /\ expectation = NoExpectation
  /\ state = DEFAULT_STATE
  /\ settings = DEFAULT_SETTINGS
  /\ manualQueues = NoQueues
  /\ message = Null

SpecUnvalidated == InitUnvalidated /\ [][Next]_vars

\* ------------------------------------------------------------- the page
\* a bound on the runs one session of the page makes
MaxRuns == 2

LOG_LIMIT == 200

ROLL_LIMIT == 200

\* what Number.parseInt makes of one token of a manual list
Tok(n) == [finite |-> TRUE, value |-> n]

NaN == [finite |-> FALSE, value |-> 0]

clampInt(token, min) ==
  IF ~token.finite THEN min ELSE Max(min, token.value)

RECURSIVE parseManualQueue(_)
parseManualQueue(input) ==
  IF input = << >> THEN << >>
  ELSE LET value == Head(input)
           rest == parseManualQueue(Tail(input))
       IN IF value.finite /\ value.value > 0
          THEN << clampInt(value, 1) >> \o rest
          ELSE rest

\* array.slice(0, limit)
Slice(seq, limit) == SubSeq(seq, 1, Min(Len(seq), limit))

\* the rolls of a run as the roll log keeps them: each with its index in the
\* run (the clock reading that is part of the id is left out)
stampRolls(rolls) ==
  [index \in 1..Len(rolls) |-> [roll |-> rolls[index], index |-> index - 1]]

enqueueManualRolls(queues) ==
  IF ~settings.autoRoll
  THEN [checks |-> parseManualQueue(settings.manualChecks),
        salvage |-> parseManualQueue(settings.manualSalvage)]
  ELSE queues

\* mutant: the snapshot does not take the session minutes
storeUndoSnapshotNoMinutes(current) ==
  [current EXCEPT !.undoSnapshot =
     [present |-> TRUE, inventory |-> cloneInventory(inventory),
      log |-> current.log,
      rolls |-> current.rolls, sessionMinutes |-> 0]]

storeUndoSnapshot(current) ==
  [current EXCEPT !.undoSnapshot =
     [present |-> TRUE, inventory |-> cloneInventory(inventory),
      log |-> current.log,
      rolls |-> current.rolls, sessionMinutes |-> current.sessionMinutes]]

\* rollStrategy.nextCheckPair(); d1 and d2 are what rollD20() returns when it
\* is called
nextCheckPair(queues, d1, d2) ==
  IF settings.autoRoll THEN [pair |-> << d1, d2 >>, queues |-> queues]
  ELSE LET checks == IF Len(queues.checks) < 2
                     THEN queues.checks \o parseManualQueue(settings.manualChecks)
                     ELSE queues.checks
           a == IF Len(checks) >= 1 THEN checks[1] ELSE d1
           b == IF Len(checks) >= 2 THEN checks[2] ELSE d2
       IN [pair |-> << a, b >>,
           queues |-> [queues EXCEPT !.checks = SubSeq(checks, 3, Len(checks))]]

\* rollStrategy.nextSalvage(); d is what rollD20() returns when it is called
nextSalvage(queues, d) ==
  IF settings.autoRoll THEN [value |-> d, queues |-> queues]
  ELSE LET salvage == IF Len(queues.salvage) = 0
                      THEN queues.salvage \o parseManualQueue(settings.manualSalvage)
                      ELSE queues.salvage
       IN [value |-> IF Len(salvage) >= 1 THEN salvage[1] ELSE d,
           queues |-> [queues EXCEPT !.salvage = SubSeq(salvage, 2, Len(salvage))]]

\* the first n nextSalvage() calls of an attempt: the values they return and
\* the queues they leave; dice[k] is what rollD20() returns in the k-th call
RECURSIVE DrawSalvage(_, _, _)
DrawSalvage(queues, dice, n) ==
  IF n = 0 THEN [values |-> << >>, queues |-> queues]
  ELSE LET before == DrawSalvage(queues, dice, n - 1)
           drawn == nextSalvage(before.queues, dice[n])
       IN [values |-> Append(before.values, drawn.value), queues |-> drawn.queues]

\* elementalRules: t4 / steady with a requirement that names another tool
MasterTool ==
  [ElementalT4 EXCEPT !.action.id = "t4m", !.risk.toolRequirement = "master"]

\* the action cards of the page
Cards == << ElementalT2, ElementalT4, ElementalT5, MasterTool >>

\* the settings a user may have chosen: crafting modifier, roll mode, and the
\* settings record with the manual lists as token lists
Profiles ==
  { [craftingMod |-> 0, rollMode |-> "normal",
     settings |-> DEFAULT_SETTINGS],
    [craftingMod |-> 6, rollMode |-> "dis",
     settings |-> [DEFAULT_SETTINGS EXCEPT !.toolkit = "greater"]],
    [craftingMod |-> 0, rollMode |-> "adv",
     settings |-> [autoRoll |-> FALSE, manualChecks |-> << Tok(19) >>,
                   manualSalvage |-> << Tok(3), Tok(18) >>,
                   toolkit |-> "greater"]],
    [craftingMod |-> 6, rollMode |-> "normal",
     settings |-> [autoRoll |-> FALSE,
                   manualChecks |-> << NaN, Tok(0), Tok(1), Tok(19), Tok(25) >>,
                   manualSalvage |-> << Tok(18), Tok(3) >>,
                   toolkit |-> "standard"]],
    [craftingMod |-> 0, rollMode |-> "dis",
     settings |-> [autoRoll |-> FALSE,
                   manualChecks |-> << Tok(25), Tok(1) >>,
                   manualSalvage |-> << NaN >>, toolkit |-> "greater"]] }

\* the page after loading: a card with its batch and extra cost, the stock,
\* and the settings the user has chosen
InitUI ==
  /\ \E s \in DOMAIN Cards :
       /\ action = Cards[s].action
       /\ risk = Cards[s].risk
       /\ \E held \in [Cards[s].pool -> {0, MaxInv}],
             few \in [Cards[s].spare -> 0..1] :
            inventory = cloneInventory(Merge(held, few))
       /\ extraCost \in IF Cards[s].action.optionalCost.present
                         THEN 0..MaxExtra ELSE {0}
  /\ attempts \in 1..MaxAttempts
  /\ \E profile \in Profiles :
       /\ modifier = profile.craftingMod
       /\ rollMode = profile.rollMode
       /\ settings = profile.settings
  /\ feasible = 0
  /\ finalInventory = inventory
  /\ results = << >>
  /\ allRolls = << >>
  /\ completed = 0
  /\ stoppedReason = Undefined
  /\ i = 0
  /\ pc = "idle"
  /\ summary = NoSummary
  /\ requirementMet = FALSE
  /\ checkDraws = 0
  /\ salvageDraws = 0
  /\ odds = computeOdds(risk, modifier, rollMode, extraCost, action.optionalCost)
  /\ expectation = computeExpectedValue(risk, odds, action.optionalCost, extraCost)
  /\ state = DEFAULT_STATE
  /\ manualQueues = NoQueues
  /\ message = Null

\* mutant: a batch that is only partly feasible is run
RunActionForAnyFeasible ==
  /\ pc = "idle"
  /\ Len(state.log) < MaxRuns
  /\ LET batch == Max(1, attempts)
         extra == Max(0, extraCost)
         count == maxFeasibleAttempts(inventory, risk, batch, extra,
                                      action.optionalCost)
     IN IF risk.toolRequirement # "" /\ risk.toolRequirement = "greater"
           /\ settings.toolkit # "greater"
        THEN /\ message' = "Greater-grade tools are required for this refinement."
             /\ UNCHANGED << state, settings, manualQueues, preview, call,
                             finalInventory, results, allRolls, completed,
                             stoppedReason, i, pc, summary, requirementMet,
                             checkDraws, salvageDraws >>
        ELSE IF count <= 0
        THEN /\ message' = "Insufficient resources for this action."
             /\ UNCHANGED << state, settings, manualQueues, preview, call,
                             finalInventory, results, allRolls, completed,
                             stoppedReason, i, pc, summary, requirementMet,
                             checkDraws, salvageDraws >>
        ELSE /\ feasible' = count
             /\ manualQueues' = enqueueManualRolls(manualQueues)
             /\ state' = storeUndoSnapshot(state)
             /\ finalInventory' = cloneInventory(inventory)
             /\ results' = << >>
             /\ allRolls' = << >>
             /\ completed' = 0
             /\ stoppedReason' = Undefined
             /\ i' = 0
             /\ summary' = NoSummary
             /\ requirementMet' = FALSE
             /\ checkDraws' = 0
             /\ salvageDraws' = 0
             /\ pc' = "loop"
             /\ UNCHANGED << settings, message, preview, options >>

\* runActionFor up to its call of runAction: the refusals, or the manual
\* queues, the undo snapshot and the locals runAction starts with
RunActionFor ==
  /\ pc = "idle"
  /\ Len(state.log) < MaxRuns
  /\ LET batch == Max(1, attempts)
         extra == Max(0, extraCost)
         count == maxFeasibleAttempts(inventory, risk, batch, extra,
                                      action.optionalCost)
     IN IF risk.toolRequirement # "" /\ risk.toolRequirement = "greater"
           /\ settings.toolkit # "greater"
        THEN /\ message' = "Greater-grade tools are required for this refinement."
             /\ UNCHANGED << state, settings, manualQueues, preview, call,
                             finalInventory, results, allRolls, completed,
                             stoppedReason, i, pc, summary, requirementMet,
                             checkDraws, salvageDraws >>
        ELSE IF count <= 0
        THEN /\ message' = "Insufficient resources for this action."
             /\ UNCHANGED << state, settings, manualQueues, preview, call,
                             finalInventory, results, allRolls, completed,
                             stoppedReason, i, pc, summary, requirementMet,
                             checkDraws, salvageDraws >>
        ELSE IF count < batch
        THEN /\ message' = "Not enough resources for the requested batch size."
             /\ UNCHANGED << state, settings, manualQueues, preview, call,
                             finalInventory, results, allRolls, completed,
                             stoppedReason, i, pc, summary, requirementMet,
                             checkDraws, salvageDraws >>
        ELSE /\ feasible' = count
             /\ manualQueues' = enqueueManualRolls(manualQueues)
             /\ state' = storeUndoSnapshot(state)
             /\ finalInventory' = cloneInventory(inventory)
             /\ results' = << >>
             /\ allRolls' = << >>
             /\ completed' = 0
             /\ stoppedReason' = Undefined
             /\ i' = 0
             /\ summary' = NoSummary
             /\ requirementMet' = FALSE
             /\ checkDraws' = 0
             /\ salvageDraws' = 0
             /\ pc' = "loop"
             /\ UNCHANGED << settings, message, preview, options >>

\* one iteration of runAction's loop on the page's roll strategy
AttemptUI ==
  /\ pc = "loop"
  /\ i < attempts
  /\ LET res == resolveAttemptRequirement(finalInventory, risk, extraCost,
                                          action.optionalCost)
         stages == resolveSalvageStages(risk.salvage)
     IN /\ res.ok
        /\ \E d1 \in RollValues, d2 \in RollValues :
           \E dice \in [1..Len(stages) -> RollValues] :
             LET drawn == nextCheckPair(manualQueues, d1, d2)
                 feed == DrawSalvage(drawn.queues, dice, Len(stages)).values
                 ran == runAttempt(res.requirement, drawn.pair[1],
                                   drawn.pair[2], feed)
             IN /\ finalInventory' = ran.inventory
                /\ results' = Append(results, ran.attempt)
                /\ allRolls' = allRolls \o << ran.check >> \o ran.rolls
                /\ completed' = completed + 1
                /\ checkDraws' = checkDraws + 1
                /\ salvageDraws' = salvageDraws + Len(ran.rolls)
                /\ manualQueues' =
                     DrawSalvage(drawn.queues, dice, Len(ran.rolls)).queues
                /\ i' = i + 1
  /\ UNCHANGED << state, settings, message, preview, call, stoppedReason, pc,
                  summary, requirementMet >>

\* runActionFor after runAction returned: the result goes into the state
Finish ==
  /\ pc = "done"
  /\ LET stampedRolls == stampRolls(allRolls)
         entry == [id |-> action.id,
                   title |-> << action.tier, risk.id, Len(results) >>,
                   details |-> << results, summary.stoppedReason >>]
     IN /\ inventory' = finalInventory
        /\ state' = [state EXCEPT
                       !.sessionMinutes = @ + summary.totalTime,
                       !.log = Slice(<< entry >> \o @, LOG_LIMIT),
                       !.rolls = Slice(stampedRolls \o @, ROLL_LIMIT)]
  /\ message' = "run complete"
  \* the locals of the call are gone
  /\ feasible' = 0
  /\ finalInventory' = inventory'
  /\ results' = << >>
  /\ allRolls' = << >>
  /\ completed' = 0
  /\ stoppedReason' = Undefined
  /\ i' = 0
  /\ summary' = NoSummary
  /\ requirementMet' = FALSE
  /\ checkDraws' = 0
  /\ salvageDraws' = 0
  /\ pc' = "idle"
  /\ UNCHANGED << settings, manualQueues, preview, action, risk, attempts,
                  modifier, rollMode, extraCost >>

handleUndo ==
  /\ pc = "idle"
  /\ IF ~state.undoSnapshot.present
     THEN /\ message' = "Nothing to undo yet."
          /\ UNCHANGED << state, inventory >>
     ELSE LET snapshot == state.undoSnapshot
          IN /\ inventory' = snapshot.inventory
             /\ state' = [log |-> snapshot.log, rolls |-> snapshot.rolls,
                          sessionMinutes |-> snapshot.sessionMinutes,
                          undoSnapshot |-> NoSnapshot]
             /\ message' = "Reverted last action."
  /\ UNCHANGED << settings, manualQueues, preview, action, risk, attempts,
                  modifier, rollMode, extraCost, feasible, finalInventory,
                  results, allRolls, completed, stoppedReason, i, pc, summary,
                  requirementMet, checkDraws, salvageDraws >>

NextUI == RunActionFor \/ AttemptUI \/ LoopEnd \/ Return \/ Finish \/ handleUndo

SpecUI == InitUI /\ [][NextUI]_vars

TypeOK ==
  /\ pc \in {"render", "previewed", "start", "idle", "loop", "summary", "done"}
  /\ finalInventory \in [Resource -> Int]
  /\ completed = Len(results)

\* --------------------------------------------------------------- properties
Stopped == stoppedReason = "Insufficient resources"

LastResult == results[Len(results)]

\* what the resolver answers for the next attempt of the running batch
NextRequirement ==
  resolveAttemptRequirement(finalInventory, risk, extraCost, action.optionalCost)

\* C1: with non-negative inventory and quantities, every count of the working
\* inventory is >= 0 after each attempt, and so is the returned finalInventory.
InventoryNeverNegative ==
  \A key \in Resource : finalInventory[key] >= 0

\* an attempt was paid that used up a resource the caller held
WitnessInventoryDrained ==
  /\ pc = "done"
  /\ completed >= 1
  /\ \E key \in DOMAIN inventory : inventory[key] > 0 /\ finalInventory[key] = 0

\* C2: a returned batch either completed all N attempts (no stop reason,
\* requirementMet) or stopped with a non-empty reason and fewer than N attempts
\* (requirementMet false); totalTime is the time of the completed attempts and
\* attemptsRequested is N; the insufficient-resources stop is in the summary.
BatchCompletesOrStops ==
  pc = "done" =>
    /\ summary.attemptsRequested = attempts
    /\ summary.attemptsCompleted = Len(results)
    /\ \A k \in 1..Len(results) : results[k].timeMinutes = risk.timeMinutes
    /\ summary.totalTime = summary.attemptsCompleted * risk.timeMinutes
    /\ \/ /\ summary.attemptsCompleted = attempts
          /\ summary.stoppedReason = Undefined
          /\ requirementMet
       \/ /\ summary.attemptsCompleted < attempts
          /\ summary.stoppedReason \notin {Undefined, ""}
          /\ ~requirementMet
    /\ ~NextRequirement.ok /\ completed < attempts
         => summary.stoppedReason = "Insufficient resources"

\* a batch that stopped half way was returned
WitnessBatchStoppedEarly ==
  /\ pc = "done"
  /\ summary.stoppedReason = "Insufficient resources"
  /\ summary.attemptsCompleted >= 1
  /\ summary.totalTime > 0

\* C3: the infeasible attempt changes nothing: from the step that sets the stop
\* reason on, the working inventory, the attempts list, the roll log and the
\* roll source are as attempt k-1 left them, and the list holds k-1 attempts.
StopChangesNothing ==
  [][ stoppedReason' # Undefined =>
        /\ finalInventory' = finalInventory
        /\ results' = results
        /\ allRolls' = allRolls
        /\ completed' = completed
        /\ checkDraws' = checkDraws
        /\ salvageDraws' = salvageDraws
        /\ Len(results') = i'
        /\ i' < attempts ]_vars

\* a batch stopped after a committed attempt, at an attempt of which a part
\* (a fixed input or the optional cost) could have been reserved
WitnessStopAfterCommit ==
  /\ pc = "done"
  /\ Stopped
  /\ Len(results) >= 1
  /\ NextRequirement.available # finalInventory

\* C4: on a failed check the salvage stages are rolled in configured order, one
\* value each, up to and including the first stage that succeeds; only that
\* stage's returns are added, and nothing is added when every stage fails.
SalvageStopsAtFirstSuccess ==
  [][ i' = i + 1 =>
        LET a == results'[Len(results')]
            stages == resolveSalvageStages(risk.salvage)
            n == Len(a.salvage)
            paid == applyRequirement(finalInventory, NextRequirement.requirement)
            won == n > 0 /\ a.salvage[n].success
        IN /\ a.success => n = 0
           /\ ~a.success =>
                /\ n <= Len(stages)
                /\ \A j \in 1..n :
                     /\ a.salvage[j].type = "salvage"
                     /\ a.salvage[j].stage = j
                     /\ a.salvage[j].dc = stages[j].dc
                     /\ a.salvage[j].total = a.salvage[j].die + modifier
                     /\ a.salvage[j].success = (a.salvage[j].total >= stages[j].dc)
                /\ \A j \in 1..(n - 1) : ~a.salvage[j].success
                /\ n < Len(stages) => won
                /\ salvageDraws' = salvageDraws + n
                /\ finalInventory' =
                     [key \in Resource |->
                        paid[key] + (IF won THEN Amount(stages[n].returns, key) ELSE 0)]
    ]_vars

\* a two-stage cascade whose first stage failed and whose second stage succeeded
WitnessSecondStageSalvage ==
  /\ Len(results) >= 1
  /\ ~LastResult.success
  /\ Len(LastResult.salvage) = 2
  /\ ~LastResult.salvage[1].success
  /\ LastResult.salvage[2].success

\* ------------------------------------------------------------ the resolver
RECURSIVE SumSeq(_)
SumSeq(seq) == IF seq = << >> THEN 0 ELSE Head(seq) + SumSeq(Tail(seq))

SumOfMap(map) == SumSeq([k \in 1..Len(RESOURCE_ORDER) |-> map[RESOURCE_ORDER[k]]])

MinOf(set) == CHOOSE m \in set : \A x \in set : m <= x

\* per-attempt fixed input of a resource, and the optional cost charged on it
FixedCost(key) == Max(Amount(risk.inputs, key), 0)

ExtraOn(key) ==
  IF action.optionalCost.present /\ extraCost > 0 /\ key = action.optionalCost.resource
  THEN extraCost ELSE 0

\* the hypothetical inventory when flex input k of the next attempt is reached
FlexBefore(k) ==
  LET start == [ok |-> TRUE, available |-> cloneInventory(finalInventory),
                requirement |-> EmptyMap]
      fixed == ReserveInputs(start, risk.inputs, Keys(risk.inputs))
      paid == ReserveOptional(fixed, extraCost, action.optionalCost)
  IN ReserveFlex(paid, SubSeq(risk.flexInputs, 1, k - 1))

\* C5: fixed inputs, optional cost and flex inputs are reserved against one
\* hypothetical inventory: a resolved requirement never exceeds the stock of any
\* resource, it covers fixed input + optional cost on each resource, and the
\* rest of it is exactly the flex amounts; an optional cost on a fixed-input
\* resource needs stock for both (5 fused, 2 + 1 per attempt: one attempt).
ReservationSharesOneInventory ==
  LET res == NextRequirement
  IN /\ pc = "loop" /\ res.ok =>
          /\ \A key \in Resource :
               /\ res.requirement[key] <= finalInventory[key]
               /\ res.requirement[key] >= FixedCost(key) + ExtraOn(key)
               /\ res.available[key] = finalInventory[key] - res.requirement[key]
          /\ SumOfMap(res.requirement) =
               SumSeq([k \in 1..Len(RESOURCE_ORDER) |->
                         FixedCost(RESOURCE_ORDER[k]) + ExtraOn(RESOURCE_ORDER[k])])
               + SumSeq([k \in 1..Len(risk.flexInputs) |-> risk.flexInputs[k].amount])
     /\ pc = "loop" =>
          \A key \in Resource :
            finalInventory[key] < FixedCost(key) + ExtraOn(key) => ~res.ok
     /\ maxFeasibleAttempts([fused |-> 5], baseRisk, 10, 1, sharedOptional) = 1

\* an attempt is payable whose optional cost is charged on a fixed-input resource
WitnessSharedResourcePaid ==
  /\ Len(results) >= 1
  /\ \E key \in Resource :
       /\ FixedCost(key) > 0
       /\ ExtraOn(key) > 0
       /\ LastResult.inventoryDelta[key] = 0 - (FixedCost(key) + ExtraOn(key))

\* C6: each flex input takes its units from its options in declared order, from
\* a later option only when every earlier one is used up, exactly its amount in
\* all; it is infeasible exactly when the stock left over its options (after
\* the fixed inputs, the optional cost and the earlier flex inputs) is short.
FlexTakenInDeclaredOrder ==
  pc = "loop" =>
  /\ \A k \in 1..Len(risk.flexInputs) :
       LET flex == risk.flexInputs[k]
           opts == flex.options
           prior == FlexBefore(k)
           after == FlexBefore(k + 1)
           taken == [key \in Resource |-> prior.available[key] - after.available[key]]
           stock == SumSeq([j \in 1..Len(opts) |-> prior.available[opts[j]]])
       IN prior.ok =>
            /\ after.ok <=> stock >= flex.amount
            /\ after.ok =>
                 /\ SumOfMap(taken) = flex.amount
                 /\ \A key \in Resource :
                      /\ taken[key] >= 0
                      /\ taken[key] > 0 => \E j \in 1..Len(opts) : opts[j] = key
                      /\ after.requirement[key] = prior.requirement[key] + taken[key]
                 /\ \A j \in 1..Len(opts) :
                      taken[opts[j]] > 0 =>
                        \A h \in 1..(j - 1) : after.available[opts[h]] = 0
  /\ NextRequirement = FlexBefore(Len(risk.flexInputs) + 1)

\* a flex input of a payable attempt is served from two of its options
WitnessFlexSpansOptions ==
  /\ Len(results) >= 1
  /\ ~LastResult.success
  /\ \A j \in 1..Len(LastResult.salvage) : ~LastResult.salvage[j].success
  /\ \E k \in 1..Len(risk.flexInputs) :
       LET flex == risk.flexInputs[k]
           first == flex.options[1]
           second == flex.options[2]
           fromFirst == 0 - LastResult.inventoryDelta[first]
                          - FixedCost(first) - ExtraOn(first)
       IN /\ Len(flex.options) >= 2
          /\ fromFirst >= 1
          /\ fromFirst < flex.amount
          /\ finalInventory[first] = 0
          /\ LastResult.inventoryDelta[second] < 0

\* ---------------------------------------------------- maxFeasibleAttempts
Feasible(inv, n) == maxFeasibleAttempts(inv, risk, n, extraCost, action.optionalCost)

\* C7: more of one resource never lowers the number of feasible attempts.
FeasibleMonotone ==
  pc = "loop" /\ i = 0 =>
    \A key \in Resource, d \in 1..MaxBump :
      /\ \A n \in {attempts, MaxProbe} :
           Feasible([finalInventory EXCEPT ![key] = @ + d], n)
             >= Feasible(finalInventory, n)
      /\ Feasible([cloneInventory(inventory) EXCEPT ![key] = @ + d], attempts)
           >= feasible

\* one more unit of a resource buys a further attempt of a risk with flex inputs
WitnessFlexUnitBuysAttempt ==
  /\ pc # "start"
  /\ risk.flexInputs # << >>
  /\ feasible >= 1
  /\ \E key \in Resource :
       Feasible([cloneInventory(inventory) EXCEPT ![key] = @ + 1], attempts) > feasible

\* C8: the feasible count lies in 0..requested; without flex inputs it is the
\* requested count capped by stock / per-attempt cost of every charged resource
\* (fixed input plus optional cost); a risk without costs gets the requested
\* count (fused 10, rawAE 3, 2 fused per attempt: 3 with extraCost 1, 5 with 0).
FeasibleCountFormula ==
  /\ pc # "start" => feasible = Feasible(inventory, attempts)
  /\ pc = "loop" =>
       \A n \in {attempts, MaxProbe} :
         LET f == Feasible(finalInventory, n)
             charged == { key \in Resource : FixedCost(key) + ExtraOn(key) > 0 }
         IN /\ 0 <= f
            /\ f <= n
            /\ risk.flexInputs = << >> =>
                 f = MinOf({n} \cup { finalInventory[key] \div (FixedCost(key) + ExtraOn(key)) :
                                        key \in charged })
  /\ maxFeasibleAttempts([fused |-> 10, rawAE |-> 3], baseRisk, 5, 1, optional) = 3
  /\ maxFeasibleAttempts([fused |-> 10, rawAE |-> 3], baseRisk, 5, 0, optional) = 5
  /\ maxFeasibleAttempts(EmptyMap, freeRisk, 4, 0, NoOptional) = 4
  /\ maxFeasibleAttempts([rawElemental |-> 2, raw |-> 2], flexRisk, 5, 0, NoOptional) = 2

\* the optional cost, not the fixed input, limits a batch to part of the request
WitnessOptionalCostLimits ==
  /\ pc # "start"
  /\ risk.flexInputs = << >>
  /\ ExtraOn(action.optionalCost.resource) > 0
  /\ feasible >= 1
  /\ feasible < attempts
  /\ feasible < maxFeasibleAttempts(inventory, risk, attempts, 0, action.optionalCost)

\* ----------------------------------------------------- computeEffectiveDc
ExpectedDc(baseDc, extra, cost) ==
  IF ~cost.present \/ extra <= 0 THEN baseDc
  ELSE IF baseDc - extra * cost.perUnitDcReduction >= cost.minDc
  THEN baseDc - extra * cost.perUnitDcReduction
  ELSE cost.minDc

\* C9: the effective DC is baseDc without an optional-cost config or with
\* extraCost <= 0, else max(minDc, baseDc - extraCost * perUnitDcReduction)
\* (18, -4 per unit, floor 5: 0 -> 18, 1 -> 14, 4 -> 5, 10 -> 5); every check
\* of the batch is rolled against it.
EffectiveDcOfEveryCheck ==
  /\ \A e \in (0 - 1)..(MaxExtra + 2) :
       /\ computeEffectiveDc(risk, e, action.optionalCost)
            = ExpectedDc(risk.baseDc, e, action.optionalCost)
       /\ computeEffectiveDc(risk, e, NoOptional) = risk.baseDc
  /\ computeEffectiveDc(baseRisk, 0, optional) = 18
  /\ computeEffectiveDc(baseRisk, 1, optional) = 14
  /\ computeEffectiveDc(baseRisk, 4, optional) = 5
  /\ computeEffectiveDc(baseRisk, 10, optional) = 5
  /\ \A k \in 1..Len(results) :
       LET dc == ExpectedDc(risk.baseDc, extraCost, action.optionalCost)
       IN /\ results[k].effectiveDc = dc
          /\ results[k].check.dc = dc
          /\ results[k].dc = risk.baseDc
          /\ results[k].success = (results[k].check.total >= dc)

\* an attempt was rolled against a DC that the optional cost had lowered
WitnessReducedDcRolled ==
  /\ Len(results) >= 1
  /\ extraCost > 0
  /\ action.optionalCost.present
  /\ LastResult.check.dc < risk.baseDc
  /\ LastResult.check.dc >= action.optionalCost.minDc

\* C10: the effective DC never rises when extraCost grows (also from 0 to 1)
\* and is never below minDc, whatever baseDc and minDc are.
EffectiveDcMonotoneAboveFloor ==
  action.optionalCost.present =>
    \A e1 \in 0..(MaxExtra + 1), e2 \in 0..(MaxExtra + 1) :
      /\ computeEffectiveDc(risk, e1, action.optionalCost) >= action.optionalCost.minDc
      /\ e1 <= e2 =>
           computeEffectiveDc(risk, e2, action.optionalCost)
             <= computeEffectiveDc(risk, e1, action.optionalCost)

\* ------------------------------------------------------- the optional cost
\* resources a flex input may take, and resources an attempt may gain
FlexOptions ==
  UNION { { risk.flexInputs[f].options[k] : k \in DOMAIN risk.flexInputs[f].options }
          : f \in DOMAIN risk.flexInputs }

Gainable ==
  LET stages == resolveSalvageStages(risk.salvage)
  IN { key \in Resource :
         \/ Amount(risk.outputs, key) # 0
         \/ \E n \in DOMAIN stages : Amount(stages[n].returns, key) # 0 }

\* C11: with an optional-cost config and extraCost > 0, every completed attempt
\* consumes exactly extraCost units of the optional-cost resource on top of
\* its fixed and flex use, also when fewer units already bring the DC to
\* minDc: the excess is consumed and the DC stays at minDc.
OptionalCostConsumedPerAttempt ==
  [][ (i' = i + 1 /\ action.optionalCost.present /\ extraCost > 0) =>
        LET resource == action.optionalCost.resource
            requirement == NextRequirement.requirement
            last == results'[Len(results')]
            flexTotal == SumSeq([f \in DOMAIN risk.flexInputs |->
                                   risk.flexInputs[f].amount])
            fixedTotal == SumSeq([k \in 1..Len(RESOURCE_ORDER) |->
                                    FixedCost(RESOURCE_ORDER[k])])
        IN /\ requirement[resource] >= FixedCost(resource) + extraCost
           /\ resource \notin FlexOptions =>
                requirement[resource] = FixedCost(resource) + extraCost
           /\ SumOfMap(requirement) = fixedTotal + extraCost + flexTotal
           /\ resource \notin Gainable =>
                /\ finalInventory'[resource]
                     = finalInventory[resource] - requirement[resource]
                /\ last.inventoryDelta[resource] = 0 - requirement[resource]
           /\ (\E u \in 1..(extraCost - 1) :
                 risk.baseDc - u * action.optionalCost.perUnitDcReduction
                   <= action.optionalCost.minDc) =>
                /\ last.effectiveDc = action.optionalCost.minDc
                /\ last.check.dc = action.optionalCost.minDc
    ]_vars

\* an attempt paid two units although one unit already held the DC at minDc
WitnessExcessUnitsConsumed ==
  /\ Len(results) >= 1
  /\ action.optionalCost.present
  /\ extraCost = 2
  /\ risk.baseDc - action.optionalCost.perUnitDcReduction <= action.optionalCost.minDc
  /\ LastResult.effectiveDc = action.optionalCost.minDc
  /\ LastResult.inventoryDelta[action.optionalCost.resource] = 0 - extraCost
  /\ finalInventory[action.optionalCost.resource]
       = inventory[action.optionalCost.resource] - extraCost * Len(results)

\* ------------------------------------------------------------ the chances
\* difficulties around every total a roll can reach
ProbedDc == (0 - MaxProbe)..(Faces + MaxBonus + MaxProbe)

Previewed == pc = "previewed"

InUnit(q) == QLe(Q(0), q) /\ QLe(q, Q(1))

Between(q) == q # Q(0) /\ q # Q(1) /\ InUnit(q)

\* C12: chanceNormal(d, m) lies in [0, 1]; it is 1 when d - m <= 1, 0 when
\* d - m > 20, and (21 - (d - m)) / 20 otherwise; the previewed stage chances
\* and the normal-mode success chance are such values.
ChanceNormalCases ==
  /\ \A d \in ProbedDc :
       LET p == chanceNormal(d, modifier)
       IN /\ InUnit(p)
          /\ d - modifier <= 1 => p = Q(1)
          /\ d - modifier > 20 => p = Q(0)
          /\ (d - modifier > 1 /\ d - modifier <= 20) =>
               /\ p[2] * (21 - (d - modifier)) = 20 * p[1]
               /\ p = Norm(<< 21 - (d - modifier), 20 >>)
  /\ Previewed =>
       /\ \A n \in DOMAIN odds.salvageStages :
            odds.salvageStages[n]
              = chanceNormal(resolveSalvageStages(risk.salvage)[n].dc, modifier)
       /\ rollMode = "normal" =>
            odds.success = chanceNormal(odds.effectiveDc, modifier)

\* a card shows a chance strictly between 0 and 1 for a single roll
WitnessPartialChance ==
  /\ Previewed
  /\ rollMode = "normal"
  /\ Between(odds.success)
  /\ odds.effectiveDc - modifier > 1
  /\ odds.effectiveDc - modifier <= 20

\* C13: dis <= normal <= adv for every d and m, with adv = 1 - (1 - p)^2,
\* dis = p^2 and normal = p for p = chanceNormal(d, m), all three in [0, 1];
\* the previewed success chance is the one of the caller's roll mode.
AdvantageOrdersChances ==
  /\ \A d \in ProbedDc :
       LET p == chanceNormal(d, modifier)
           adv == chanceWithAdv(d, modifier, "adv")
           dis == chanceWithAdv(d, modifier, "dis")
           normal == chanceWithAdv(d, modifier, "normal")
       IN /\ QLe(dis, normal) /\ QLe(normal, adv)
          /\ InUnit(dis) /\ InUnit(normal) /\ InUnit(adv)
          /\ normal = p
          /\ dis[1] * p[2] * p[2] = p[1] * p[1] * dis[2]
          /\ (adv[2] - adv[1]) * p[2] * p[2]
               = (p[2] - p[1]) * (p[2] - p[1]) * adv[2]
  /\ Previewed =>
       /\ odds.success = chanceWithAdv(odds.effectiveDc, modifier, rollMode)
       /\ rollMode = "adv" =>
            QLe(chanceNormal(odds.effectiveDc, modifier), odds.success)
       /\ rollMode = "dis" =>
            QLe(odds.success, chanceNormal(odds.effectiveDc, modifier))

\* a card under advantage shows a chance above the single-roll chance
WitnessAdvantageRaisesChance ==
  /\ Previewed
  /\ rollMode = "adv"
  /\ odds.success # chanceNormal(odds.effectiveDc, modifier)
  /\ QLe(chanceNormal(odds.effectiveDc, modifier), odds.success)
  /\ QLe(chanceWithAdv(odds.effectiveDc, modifier, "dis"),
         chanceNormal(odds.effectiveDc, modifier))
  /\ chanceWithAdv(odds.effectiveDc, modifier, "dis")
       # chanceNormal(odds.effectiveDc, modifier)

\* the faces of one die, and the pairs of two dice
Die == 1..Faces

DicePairs == Die \X Die

\* C14: 20 * chanceNormal(dc, m) is the number of faces r with r + m >= dc,
\* and 400 * chanceWithAdv(dc, m, mode) is the number of pairs (a, b) whose
\* check (pickAdvantage under the mode, plus m, against dc) succeeds in
\* runAction.
PreviewCountsWinningRolls ==
  /\ \A d \in ProbedDc :
       LET p == chanceNormal(d, modifier)
       IN Faces * p[1] = p[2] * Cardinality({ r \in Die : r + modifier >= d })
  /\ Previewed =>
       /\ Faces * Faces * odds.success[1]
            = odds.success[2]
                * Cardinality({ pair \in DicePairs :
                                  rollCheck(pair[1], pair[2]).success })
       /\ \A mode \in AdvMode :
            LET p == chanceWithAdv(odds.effectiveDc, modifier, mode)
            IN Faces * Faces * p[1]
                 = p[2] * Cardinality({ pair \in DicePairs :
                            pickAdvantage(pair[1], pair[2], mode) + modifier
                              >= computeEffectiveDc(risk, extraCost,
                                                    action.optionalCost) })

\* under disadvantage some pairs win the check and some lose it
WitnessSomePairsWin ==
  /\ Previewed
  /\ rollMode = "dis"
  /\ Between(odds.success)
  /\ \E pair \in DicePairs :
       /\ rollCheck(pair[1], pair[1]).success
       /\ ~rollCheck(pair[1], pair[2]).success

\* -------------------------------------------------------------- the odds
RECURSIVE QProd(_)
QProd(seq) == IF seq = << >> THEN Q(1) ELSE QMul(Head(seq), QProd(Tail(seq)))

RECURSIVE QSum(_)
QSum(seq) == IF seq = << >> THEN Q(0) ELSE QAdd(Head(seq), QSum(Tail(seq)))

\* the chance of each salvage stage on its own roll
StageChance(n) == chanceNormal(resolveSalvageStages(risk.salvage)[n].dc, modifier)

\* the chance that none of the first n stages succeeds
AllMiss(n) == QProd([j \in 1..n |-> QSub(Q(1), StageChance(j))])

\* the values of nextSalvage() for one cascade, and the cascades among them
\* that end in a successful stage
Feeds == [1..Len(resolveSalvageStages(risk.salvage)) -> Die]

Salvaged(feed) ==
  LET rolls == SalvageLoop([inventory |-> finalInventory, delta |-> EmptyMap,
                            rolls |-> << >>],
                           resolveSalvageStages(risk.salvage), 0, feed).rolls
  IN rolls # << >> /\ rolls[Len(rolls)].success

\* C15 (as the code has it): with salvage configured, the salvage value of
\* computeOdds is the probability that the check fails and salvage then
\* succeeds at some stage, (1 - success) * (1 - product of (1 - stageChance_i));
\* it is the share of roll outcomes in which runAction salvages.
SalvageOddsWeighCheckFailure ==
  Previewed /\ odds.hasSalvage =>
    LET stages == resolveSalvageStages(risk.salvage)
        lost == Cardinality({ pair \in DicePairs :
                                ~rollCheck(pair[1], pair[2]).success })
        saved == Cardinality({ feed \in Feeds : Salvaged(feed) })
    IN /\ odds.salvage
            = QMul(QSub(Q(1), odds.success), QSub(Q(1), AllMiss(Len(stages))))
       /\ odds.salvage
            = QMul(Norm(<< lost, Cardinality(DicePairs) >>),
                   Norm(<< saved, Cardinality(Feeds) >>))

\* a card whose check can succeed and whose salvage can succeed
WitnessSalvageAfterLikelyCheck ==
  /\ Previewed
  /\ odds.hasSalvage
  /\ Between(odds.success)
  /\ Between(odds.salvage)
  /\ odds.salvage # QSub(Q(1), AllMiss(Len(odds.salvageStages)))

\* C15 as stated: the salvage value is the probability of salvage succeeding
\* at all, 1 - product over the stages of (1 - stageChance_i).
SalvageOddsIgnoreCheck ==
  Previewed /\ odds.hasSalvage =>
    odds.salvage
      = QSub(Q(1), AllMiss(Len(resolveSalvageStages(risk.salvage))))

\* --------------------------------------------------------- the expectation
\* the share of attempts that reach salvage stage n and succeed there
StageShare(n) ==
  QMul(QMul(QSub(Q(1), odds.success), AllMiss(n - 1)), StageChance(n))

\* C16: the expectation of a resource is -(fixed input) - (extraCost on the
\* optional-cost resource when extraCost > 0) + output * success + the sum
\* over the salvage stages of return_i * (1 - success) * product over the
\* earlier stages of (1 - stageChance_j) * stageChance_i; without salvage and
\* with success 1 it is output - input, and -extraCost on an optional-cost
\* resource that is neither input nor output.
ExpectationFormula ==
  Previewed =>
    LET stages == resolveSalvageStages(risk.salvage)
    IN \A key \in Resource :
         /\ expectation[key]
              = QAdd(QAdd(Q(0 - FixedCost(key) - ExtraOn(key)),
                          QMul(Q(Amount(risk.outputs, key)), odds.success)),
                     QSum([n \in 1..Len(stages) |->
                             QMul(Q(Amount(stages[n].returns, key)), StageShare(n))]))
         /\ (~odds.hasSalvage /\ odds.success = Q(1)) =>
              /\ expectation[key]
                   = Q(Amount(risk.outputs, key) - Amount(risk.inputs, key)
                         - ExtraOn(key))
              /\ (/\ ExtraOn(key) > 0
                  /\ Amount(risk.inputs, key) = 0
                  /\ Amount(risk.outputs, key) = 0) =>
                   expectation[key] = Q(0 - extraCost)

\* a card of a two-stage salvage in which the check and both stages are open
WitnessCascadeWeighed ==
  /\ Previewed
  /\ Len(odds.salvageStages) = 2
  /\ Between(odds.success)
  /\ Between(odds.salvageStages[1])
  /\ Between(odds.salvageStages[2])
  /\ \E key \in Resource :
       /\ Amount(resolveSalvageStages(risk.salvage)[2].returns, key) > 0
       /\ expectation[key] # Q(0 - FixedCost(key))

\* pointwise sum of two deltas, and a delta taken n times
MapAdd(f, g) == [key \in Resource |-> f[key] + g[key]]

MapTimes(n, f) == [key \in Resource |-> n * f[key]]

\* the inventoryDelta of the next attempt summed over every cascade feed that
\* extends `prefix` by a value >= r
RECURSIVE DeltaOverFeeds(_, _, _)
DeltaOverFeeds(pair, prefix, r) ==
  IF Len(prefix) = Len(resolveSalvageStages(risk.salvage))
  THEN runAttempt(NextRequirement.requirement, pair[1], pair[2],
                  prefix).attempt.inventoryDelta
  ELSE IF r > Faces THEN EmptyMap
  ELSE MapAdd(DeltaOverFeeds(pair, Append(prefix, r), 1),
              DeltaOverFeeds(pair, prefix, r + 1))

\* the inventoryDelta of the next attempt summed over all roll outcomes; it
\* depends on the check pair only through the outcome of the check
TotalDelta ==
  LET won == { pair \in DicePairs : rollCheck(pair[1], pair[2]).success }
      lost == DicePairs \ won
      perPair(pairs) == IF pairs = {} THEN EmptyMap
                        ELSE DeltaOverFeeds(CHOOSE pair \in pairs : TRUE, << >>, 1)
  IN MapAdd(MapTimes(Cardinality(won), perPair(won)),
            MapTimes(Cardinality(lost), perPair(lost)))

\* C17: computeExpectedValue on the odds of computeOdds is the mean of the
\* inventoryDelta runAction records for one feasible attempt over all equally
\* likely roll outcomes, for every risk, with or without flex inputs.
ExpectationIsMeanDelta ==
  Previewed /\ NextRequirement.ok =>
    \A key \in Resource :
      expectation[key]
        = Norm(<< TotalDelta[key], Cardinality(DicePairs) * Cardinality(Feeds) >>)

\* ---------------------------------------------------- configuration errors
\* the call has returned a result to its caller
Returned == pc = "done"

\* C18: runAction called with attempts <= 0 fails fast with a configuration
\* error; it does not return a normal result.
NonPositiveAttemptsRejected ==
  attempts <= 0 => ~Returned

EmptyOptionList ==
  \E f \in DOMAIN risk.flexInputs :
    risk.flexInputs[f].options = << >> /\ risk.flexInputs[f].amount > 0

\* C19: a risk with a flex input whose option list is empty (amount > 0) is a
\* configuration error: runAction does not stop on it with "Insufficient
\* resources" and maxFeasibleAttempts does not count 0 feasible attempts.
EmptyOptionListRejected ==
  (EmptyOptionList /\ attempts >= 1) =>
    /\ stoppedReason # "Insufficient resources"
    /\ pc # "start" => feasible # 0

NegativeQuantity ==
  LET stages == resolveSalvageStages(risk.salvage)
  IN \/ \E k \in DOMAIN risk.inputs : risk.inputs[k][2] < 0
     \/ \E f \in DOMAIN risk.flexInputs : risk.flexInputs[f].amount < 0
     \/ \E k \in DOMAIN risk.outputs : risk.outputs[k][2] < 0
     \/ \E n \in DOMAIN stages :
          \E k \in DOMAIN stages[n].returns : stages[n].returns[k][2] < 0

\* C20: a risk with a negative fixed input, flex amount, output or salvage
\* return is a configuration error of the resolver and the runner: no attempt
\* of it is resolved or completed, nothing is applied to the inventory and no
\* normal result is returned.
NegativeQuantityRejected ==
  (NegativeQuantity /\ attempts >= 1) =>
    /\ pc = "loop" => ~NextRequirement.ok
    /\ results = << >>
    /\ finalInventory = cloneInventory(inventory)
    /\ ~Returned

\* ------------------------------------------------------------ the snapshot
\* C21: the engine leaves the caller's inventory as it was: no step of
\* maxFeasibleAttempts or runAction changes a count of it, finalInventory
\* starts as a copy of it, and a second call on it resolves the same first
\* requirement as the first call did.
InputInventoryUntouched ==
  [][ /\ inventory' = inventory
      /\ (pc' = "loop" /\ i' = 0) => finalInventory' = cloneInventory(inventory')
      /\ Len(results') >= 1 =>
           LET again == resolveAttemptRequirement(inventory', risk', extraCost',
                                                  action'.optionalCost)
           IN /\ again.ok
              /\ \A key \in Resource :
                   /\ results'[1].inventoryDelta[key] >= 0 - again.requirement[key]
                   /\ Get(inventory', key) >= again.requirement[key]
    ]_vars

\* a returned batch consumed units while the caller's inventory still has them
WitnessSnapshotDiverged ==
  /\ pc = "done"
  /\ Len(results) = attempts
  /\ \E key \in Resource :
       /\ finalInventory[key] = 0
       /\ Get(inventory, key) > 0
  /\ ~resolveAttemptRequirement(finalInventory, risk, extraCost,
                                action.optionalCost).ok

\* --------------------------------------------------------------- the delta
\* the deltas of the first n recorded attempts, summed
RECURSIVE DeltaSum(_, _)
DeltaSum(attemptResults, n) ==
  IF n = 0 THEN EmptyMap
  ELSE MapAdd(DeltaSum(attemptResults, n - 1), attemptResults[n].inventoryDelta)

\* what an attempt gained: the outputs on success, else the returns of the
\* stage whose roll succeeded, else nothing
GainOf(attempt, key) ==
  LET stages == resolveSalvageStages(risk.salvage)
      rolled == Len(attempt.salvage)
  IN IF attempt.success THEN Amount(risk.outputs, key)
     ELSE IF rolled > 0 /\ attempt.salvage[rolled].success
     THEN Amount(stages[rolled].returns, key)
     ELSE 0

\* C22: the inventoryDelta of an attempt is the net change the attempt applied
\* to the inventory: minus the resolved requirement, plus the outputs if the
\* check succeeded, plus the returns of the first succeeding salvage stage if
\* it failed; finalInventory is the initial inventory plus the deltas of the
\* completed attempts.
DeltaIsNetChange ==
  [][ /\ i' = i + 1 =>
           LET last == results'[Len(results')]
               requirement == NextRequirement.requirement
           IN \A key \in Resource :
                /\ last.inventoryDelta[key]
                     = GainOf(last, key) - requirement[key]
                /\ finalInventory'[key]
                     = finalInventory[key] + last.inventoryDelta[key]
      /\ finalInventory'
           = MapAdd(cloneInventory(inventory'), DeltaSum(results', Len(results')))
    ]_vars

\* a batch whose first attempt gained the outputs and whose second attempt was
\* salvaged
WitnessOutputsThenSalvage ==
  /\ Len(results) = 2
  /\ results[1].success
  /\ ~results[2].success
  /\ Len(results[2].salvage) >= 1
  /\ results[2].salvage[Len(results[2].salvage)].success
  /\ \E key \in Resource : results[2].inventoryDelta[key] > 0
  /\ \E key \in Resource : results[2].inventoryDelta[key] < 0

\* C23: the runner completes exactly the attempts the resolver counts:
\* attemptsCompleted = maxFeasibleAttempts(inventory, risk, N, extraCost,
\* optionalCost) for every roll sequence, also when an output or a salvage
\* return is a resource the risk consumes.
CompletedEqualsFeasible ==
  Returned =>
    /\ summary.attemptsCompleted = feasible
    /\ summary.attemptsCompleted
         = maxFeasibleAttempts(inventory, risk, attempts, extraCost,
                               action.optionalCost)

\* the equipped tool does not match the tool the risk requires
ToolMismatch ==
  risk.toolRequirement # "" /\ settings.toolkit # risk.toolRequirement

\* C24: a risk with a tool requirement runs only when the toolkit setting
\* matches the requirement's id: with a non-matching toolkit no run is ever in
\* progress and log, rolls, session minutes and undo snapshot stay as loaded.
\* The code compares the id with "greater" only, so this fails for another id.
MismatchedToolRefused ==
  ToolMismatch => pc = "idle" /\ state = DEFAULT_STATE

Range(seq) == { seq[n] : n \in DOMAIN seq }

\* C25: in manual mode with a configured list that parses to at least one
\* value, every die of a check (either element of the pair) and every salvage
\* die comes from the configured list. The code draws the second element of a
\* pair from the d20 generator when the list holds one value.
ManualRollsFromList ==
  ~settings.autoRoll =>
    \A n \in DOMAIN allRolls :
      LET list == parseManualQueue(IF allRolls[n].type = "check"
                                   THEN settings.manualChecks
                                   ELSE settings.manualSalvage)
      IN list # << >> => allRolls[n].die \in Range(list)

\* the pairs nextCheckPair() can return in the current state
PairsOffered ==
  { nextCheckPair(manualQueues, d1, d2) : d1 \in RollValues, d2 \in RollValues }

\* C26: every completed attempt draws exactly one check pair (a, b); the
\* recorded die is max(a, b) under adv, min(a, b) under dis and a under normal,
\* the total is die + modifier, the dc is the effective DC, and the attempt
\* succeeds exactly when total >= effective DC.
CheckResolvesOnePair ==
  [][ i' = i + 1 =>
        LET last == results'[Len(results')]
            check == last.check
            dc == computeEffectiveDc(risk, extraCost, action.optionalCost)
        IN /\ checkDraws' = checkDraws + 1
           /\ \E drawn \in PairsOffered :
                LET a == drawn.pair[1]
                    b == drawn.pair[2]
                IN /\ manualQueues'.checks = drawn.queues.checks
                   /\ check.die = CASE rollMode = "adv" -> Max(a, b)
                                    [] rollMode = "dis" -> Min(a, b)
                                    [] OTHER -> a
                   /\ check.die \in {a, b}
           /\ check.type = "check"
           /\ check.modifier = modifier
           /\ check.total = check.die + modifier
           /\ check.dc = dc
           /\ last.effectiveDc = dc
           /\ check.success = last.success
           /\ last.success <=> (check.total >= dc)
           /\ allRolls'[Len(allRolls) + 1] = check ]_vars

\* a manual pair (25, 1) under disadvantage: the lower, second value is the die
WitnessLowerOfPairTaken ==
  /\ ~settings.autoRoll
  /\ rollMode = "dis"
  /\ results # << >>
  /\ LastResult.check.die = 1
  /\ ~LastResult.success
  /\ manualQueues.checks = << >>

\* C27: salvage is never subject to the roll mode of the check: after a failed
\* check each salvage roll is one drawn value, value + modifier against the
\* dc of its stage, whatever the mode, and computeOdds gives the stage chances
\* chanceNormal(stage.dc, modifier) for normal, adv and dis alike.
SalvageIgnoresRollMode ==
  [][ LET stages == resolveSalvageStages(risk.salvage)
      IN \* the card and its settings never change: its odds are looked at
         \* in the first step of the page
         /\ message = Null =>
              \A mode \in AdvMode :
                LET shown == computeOdds(risk, modifier, mode, extraCost,
                                         action.optionalCost).salvageStages
                IN /\ shown = odds.salvageStages
                   /\ Len(shown) = Len(stages)
                   /\ \A n \in DOMAIN shown :
                        shown[n] = chanceNormal(stages[n].dc, modifier)
         /\ (i' = i + 1 /\ ~results'[Len(results')].success
               /\ risk.salvage.present) =>
              LET rolls == results'[Len(results')].salvage
              IN /\ Len(rolls) >= 1
                 /\ salvageDraws' = salvageDraws + Len(rolls)
                 /\ \E dice \in [1..Len(stages) -> RollValues] :
                      LET drawn == DrawSalvage(manualQueues, dice, Len(rolls))
                      IN /\ manualQueues'.salvage = drawn.queues.salvage
                         /\ \A n \in DOMAIN rolls :
                              rolls[n].die = drawn.values[n]
                 /\ \A n \in DOMAIN rolls :
                      /\ rolls[n].type = "salvage"
                      /\ rolls[n].stage = n
                      /\ rolls[n].dc = stages[n].dc
                      /\ rolls[n].total = rolls[n].die + modifier
                      /\ rolls[n].success <=> (rolls[n].total >= stages[n].dc) ]_vars

\* under advantage a failed check is followed by the manual salvage values 3
\* and 18 as they are: the first stage fails, the second succeeds
WitnessSalvageUnderAdvantage ==
  /\ ~settings.autoRoll
  /\ rollMode = "adv"
  /\ results # << >>
  /\ ~LastResult.success
  /\ Len(LastResult.salvage) = 2
  /\ LastResult.salvage[1].die = 3
  /\ LastResult.salvage[2].die = 18
  /\ LastResult.salvage[2].success
  /\ Len(odds.salvageStages) = 2

\* the rolls of the first n attempts, each check followed by its salvage rolls
RECURSIVE RollsOf(_, _)
RollsOf(attemptResults, n) ==
  IF n = 0 THEN << >>
  ELSE RollsOf(attemptResults, n - 1)
         \o << attemptResults[n].check >> \o attemptResults[n].salvage

RECURSIVE SalvageCount(_, _)
SalvageCount(attemptResults, n) ==
  IF n = 0 THEN 0
  ELSE SalvageCount(attemptResults, n - 1) + Len(attemptResults[n].salvage)

\* C28: the flat roll log is, in attempt order, each completed attempt's check
\* followed by its salvage rolls in stage order 1, 2, ...; one check per
\* completed attempt, salvage rolls only after a failed check, attempts
\* numbered from 1, and no value is drawn for an attempt whose requirement is
\* infeasible.
RollLogInAttemptOrder ==
  /\ allRolls = RollsOf(results, Len(results))
  /\ Cardinality({ n \in DOMAIN allRolls : allRolls[n].type = "check" })
       = completed
  /\ checkDraws = completed
  /\ salvageDraws = SalvageCount(results, Len(results))
  /\ \A n \in DOMAIN results :
       /\ results[n].attempt = n
       /\ results[n].check.type = "check"
       /\ results[n].success => results[n].salvage = << >>
       /\ \A k \in DOMAIN results[n].salvage :
            /\ results[n].salvage[k].type = "salvage"
            /\ results[n].salvage[k].stage = k

\* a batch stopped at its second attempt after a first attempt with a failed
\* check and two salvage rolls: three rolls in the log, three values drawn
WitnessStoppedAfterSalvageRolls ==
  /\ Stopped
  /\ Len(results) = 1
  /\ Len(results[1].salvage) = 2
  /\ Len(allRolls) = 3
  /\ checkDraws + salvageDraws = 3

\* what maxFeasibleAttempts answers for the card's batch and extra cost
FeasibleBatch ==
  maxFeasibleAttempts(inventory, risk, Max(1, attempts), Max(0, extraCost),
                      action.optionalCost)

UndoMessages == {"Nothing to undo yet.", "Reverted last action."}

\* C29: through the page a batch is all or nothing: runAction is called only
\* when maxFeasibleAttempts equals the requested batch; when fewer attempts
\* are feasible runActionFor changes nothing but the message; and a batch that
\* runs completes every requested attempt with no stop reason, whatever the
\* rolls.
BatchAllOrNothing ==
  [][ /\ (pc = "idle" /\ pc' = "loop") => FeasibleBatch = Max(1, attempts)
      /\ (pc = "idle" /\ message' \notin UndoMessages
            /\ FeasibleBatch < Max(1, attempts)) =>
           /\ pc' = "idle"
           /\ UNCHANGED << inventory, state, manualQueues >>
      /\ (pc' = "loop" /\ i' < attempts') =>
           resolveAttemptRequirement(finalInventory', risk', extraCost',
                                     action'.optionalCost).ok
      /\ pc' = "done" =>
           /\ summary'.attemptsCompleted = attempts'
           /\ summary'.attemptsRequested = attempts'
           /\ Falsy(summary'.stoppedReason)
           /\ requirementMet' ]_vars

\* after a first batch of two or more attempts was run in full, the same batch
\* is refused for lack of resources
WitnessSecondBatchRefused ==
  /\ message = "Not enough resources for the requested batch size."
  /\ Len(state.log) = 1
  /\ attempts >= 2
  /\ state.log[1].title[3] = attempts
  /\ state.undoSnapshot.present

\* the snapshot holds the inventory, log, rolls and session minutes of the
\* current state
SnapshotOfNow ==
  /\ state.undoSnapshot.present
  /\ state.undoSnapshot.inventory = inventory
  /\ state.undoSnapshot.log = state.log
  /\ state.undoSnapshot.rolls = state.rolls
  /\ state.undoSnapshot.sessionMinutes = state.sessionMinutes

\* C30: undo is a single-level round trip: every run first stores the
\* inventory, log, rolls and session minutes it starts from, replacing an
\* older snapshot, and nothing but undo touches the snapshot until the next
\* run; handleUndo puts the four stored values back and clears the snapshot;
\* with no snapshot stored it changes no state.
UndoRestoresLastRun ==
  [][ /\ (pc = "idle" /\ pc' = "loop") =>
           /\ UNCHANGED << inventory, state.log, state.rolls, state.sessionMinutes >>
           /\ SnapshotOfNow'
      /\ pc \in {"loop", "summary"} => UNCHANGED << inventory, state >>
      /\ pc = "done" =>
           /\ SnapshotOfNow
           /\ state'.undoSnapshot = state.undoSnapshot
           /\ inventory' = finalInventory
           /\ Len(state'.log) = Len(state.log) + 1
           /\ state'.rolls = stampRolls(allRolls) \o state.rolls
           /\ state'.sessionMinutes = state.sessionMinutes + SumTime(results)
      /\ (pc = "idle" /\ pc' = "idle" /\ message' \in UndoMessages) =>
           IF state.undoSnapshot.present
           THEN /\ inventory' = state.undoSnapshot.inventory
                /\ state'.log = state.undoSnapshot.log
                /\ state'.rolls = state.undoSnapshot.rolls
                /\ state'.sessionMinutes = state.undoSnapshot.sessionMinutes
                /\ ~state'.undoSnapshot.present
                /\ message' = "Reverted last action."
           ELSE /\ UNCHANGED << inventory, state, manualQueues >>
                /\ message' = "Nothing to undo yet." ]_vars

\* two runs and one undo: the first run's log entry, rolls and minutes are
\* back, the snapshot is cleared
WitnessSecondRunUndone ==
  /\ pc = "idle"
  /\ message = "Reverted last action."
  /\ Len(state.log) = 1
  /\ state.rolls # << >>
  /\ state.sessionMinutes = state.log[1].title[3] * risk.timeMinutes
  /\ ~state.undoSnapshot.present

====
